---- MODULE Spec2Model ----
(***************************************************************************)
(* RBAC enforcement / decision cache (rbac/service.py) and the session     *)
(* lifecycle (services/auth/service.py) of auth_microservice, as state     *)
(* machines.  Requests are asyncio tasks; every `await` that really        *)
(* suspends (redis, database, to_thread) ends a step.                      *)
(***************************************************************************)
EXTENDS Integers, Sequences, FiniteSets, TLC

\* ------------------------------------------------------------------ bounds
\* Requests started in one behaviour of the RBAC specification.
MaxCalls == 3

\* Session requests in one behaviour, and how far the clock runs.
MaxRequests == 3
MaxClock == 2

\* Administrative requests in one behaviour of the administration
\* specification.
MaxAdmin == 3
MaxResets == 2
MaxLives == 2
MaxConsumes == 2
MaxRows == 1

\* The batch of _clear_cached_decisions (len(keys) >= 100, line 155), scaled
\* to the keyspace of the model so that a clear takes more than one batch.
BatchLimit == 2

\* settings.jwt_refresh_token_expires_minutes, in ticks of the clock.
RefreshTtl == 1

\* ------------------------------------------------------------ fixed inputs
Tasks == {"t1", "t2"}
UserIds == {1, 2}
RoleIds == {1, 2}
OrgIds == {1, 2}
PermissionIds == {1, 2}

\* User.role_id is nullable: this is the NULL.
NoRole == 0

\* uuh_users.organization_id, uuh_roles.organization_id and
\* uuh_permissions.permission_name of the rows the model works with.  Role ids
\* and user ids coincide as numbers, as autoincrement keys of two tables do.
UserOrganization == (1 :> 1) @@ (2 :> 2)
RoleOrganization == (1 :> 1) @@ (2 :> 2)
PermissionName == (1 :> "doc.read") @@ (2 :> "doc.write")
PermissionNames == {PermissionName[i] : i \in PermissionIds}

\* enforce(..., action="access"): every caller in the repository relies on the
\* default; the service API also takes any other string.
DefaultAction == "access"
Actions == {"access", "delete"}

\* The requests the concurrent specification draws: checks of doc.write with
\* the default action, for every user in every organization, and the
\* administration of organization 1 (organization 2 is the other tenant).
EnforceInputs ==
    [user : UserIds, perm : {"doc.write"}, org : OrgIds, act : {DefaultAction}]

PermissionsInputs == [user : UserIds, perm : {""}, org : OrgIds, act : {""}]

\* str(): casbin only sees strings.
Str(n) == ToString(n)

\* ------------------------------------------------------------------- state
VARIABLES
    userRole,        \* committed uuh_users.role_id, by user id
    rolePermissions, \* committed uuh_role_permissions rows
    storedRoles,     \* committed uuh_roles rows: the role ids that exist
    heldDeleted,     \* history: users whose role a delete_role took away
    txn,             \* per task: the uncommitted mutation of its db session
    policy,          \* enforcer "p" rules  <<role, permission, org, action>>
    grouping,        \* enforcer "g" rules  <<user, role, org>>
    policiesLoaded,  \* RbacService._policies_loaded
    lock,            \* RbacService._lock: its holder, or "free"
    cache,           \* redis: key -> [val, old, ttl, at, due]; ttl: seconds left
                     \* to live; history: old, at (the tick it was written) and
                     \* due (the tasks whose running clear began after it)
    pc,              \* per task: where its request stands
    op,              \* per task: the request it runs
    arg,             \* per task: the arguments of enforce / get_user_permissions
    keys,            \* per task: `keys` of _clear_cached_decisions
    cursor,          \* per task: the keys its scan_iter has yet to visit
    decision,        \* per task: `decision` of enforce; old: the model it was
                     \* read from has been cleared since (history)
    roles,           \* per task: `roles` of get_user_permissions, not yet visited
    permissions,     \* per task: `permissions` of get_user_permissions
    result,          \* per task: what its last finished request returned
    permsOut,        \* per task: the list get_user_permissions returned
    calls,           \* requests started so far
    preReload,       \* history: model and flag when the running reload began
    mustReload,      \* history: invalidate_cache returned, no reload began since
    loadedAllow,     \* history: requests some completed load allowed
    quiet            \* per task, history: no other request ran since its call began

rbacVars == <<userRole, rolePermissions, storedRoles, heldDeleted, txn, policy, grouping, policiesLoaded, lock,
          cache, pc, op, arg, keys, cursor, decision, roles, permissions, result, permsOut, calls,
          preReload, mustReload, loadedAllow, quiet>>

\* Login sessions (UserLogin rows) and the requests that work on them.
VARIABLES
    sessions,        \* committed UserLogin rows, login_id = index
    rowLock,         \* per row: the transaction that wrote it and has not ended
    clock,           \* datetime.now(timezone.utc), in ticks
    issued,          \* refresh tokens generated so far
    requests,        \* session requests started so far
    spc,             \* per task: position in its session request
    sreq,            \* per task: the request's session_id and refresh_token
    srow,            \* per task: what its transaction will write to the row
    sres,            \* per task: outcome of its last session request
    userPassword     \* committed uuh_users.password (a hash), by user id

sessVars == <<sessions, rowLock, clock, issued, requests, spc, sreq, srow, sres,
             userPassword>>

\* The tables behind the fact store as the administrative handlers see them,
\* and the requests that write them.
VARIABLES
    orgRows,             \* organization: organization_name, by organization_id
    roleRows,            \* uuh_roles: [organization_id, role_name], by role_id
    userRows,            \* uuh_users: [organization_id, role_id], by user_id
    rolePermissionRows,  \* role_permissions: row -> number of copies stored
    admins,              \* administrative requests started so far
    apc,                 \* per task: position in its administrative request
    atx,                 \* per task: the row its transaction is about to insert
    ares                 \* per task: outcome of its last administrative request

adminVars == <<orgRows, roleRows, userRows, rolePermissionRows, admins, apc, atx, ares>>

\* The password-reset keys of the cache, the PasswordReset table and the
\* requests that use them.
VARIABLES
    rateKey,         \* password_reset:rate:{id}: [n, ttl] by user id (n = 0: no key)
    userKey,         \* password_reset:user:{id}: the token stored, by user id (0: no key)
    tokenKey,        \* password_reset:token:{token}: user id, by token, of the keys present
    passwordResets,  \* password_resets rows: [user_id, token_used, expired] by reset_token
    minted,          \* tokens generated so far
    resets,          \* create_password_reset_token calls started so far
    consumes,        \* reset_password calls started so far
    rpc,             \* per task: position in its password-reset request
    rloc,            \* per task: the locals of its request
    rres,            \* outcome of the password-reset request that returned last
    life,            \* history: how many rate counters have been created
    grants,          \* history: tokens returned, by the rate counter the call incremented
    latest,          \* history: the cache-backed token issued last, by user id
    issuedTokens,    \* history: the cache-backed tokens issued so far
    consumed         \* history: successful reset_password calls, by token

resetVars == <<rateKey, userKey, tokenKey, passwordResets, minted, resets, consumes, rpc, rloc, rres,
              life, grants, latest, issuedTokens, consumed>>

vars == <<rbacVars, sessVars, adminVars, resetVars>>

dbVars == <<userRole, rolePermissions, storedRoles, heldDeleted>>
modelVars == <<policy, grouping>>

NoArg == [user |-> 0, perm |-> "", org |-> 0, act |-> ""]
NoTxn == [kind |-> "none", user |-> 0, role |-> 0, perm |-> 0]
NoDecision == [val |-> "none", old |-> FALSE]
NoResult == [val |-> "none"]
\* NULL of a nullable timestamp column.
Null == -1

NoPrincipal == [user_id |-> 0, session_id |-> 0, organization_id |-> 0, role_id |-> 0]
NoRequest == [sid |-> 0, token |-> 0, sub |-> 0, valid |-> FALSE]
NoWrite == [kind |-> "none", hash |-> <<>>, expires |-> 0, at |-> Null, token |-> 0]
NoOutcome == [status |-> "none", sid |-> 0, presented |-> 0, token |-> 0,
              principal |-> NoPrincipal]
NoPre == [policy |-> {}, grouping |-> {}, loaded |-> FALSE, live |-> FALSE]

\* core/security.py: bcrypt.  A hash verifies exactly the password it was made
\* from (salts and collisions are left out).
hash_password(password) == <<"bcrypt", password>>

verify_password(password, hashed) == hashed = hash_password(password)

\* The passwords a client may type or choose.
InitialPassword == "first"
Passwords == {"first", "second"}

\* The users that have a ContactInformation row with an email address.
ResetUsers == {1}

\* attempts > 5 in create_password_reset_token
RateLimit == 5

\* No token: the None of a str | None, the nil of a redis GET.
NoToken == 0

\* A rate key that does not exist.
NoRateKey == [n |-> 0, ttl |-> FALSE]

\* ForgotPasswordResponse(status="ok", reset_token=None) and the absence of
\* any response.
NoResponse == [status |-> "none", reset_token |-> NoToken]

NoLocals ==
    [backed |-> "none", user |-> 0, token |-> NoToken, previous |-> NoToken,
     attempts |-> 0, life |-> 0, pw |-> ""]

NoReply ==
    [op |-> "none", outcome |-> "none", mail |-> FALSE, response |-> NoResponse]

\* The tokens these behaviours can generate.
Tokens == 1..(RateLimit + MaxResets)

\* The passwords a client chooses in reset_password.
NewPasswords == Passwords \ {InitialPassword}

\* ------------------------------------------------------- the fact store
\* _load_role_permissions: RolePermission JOIN Role JOIN Permission, one
\* policy per row.
PolicyOf(row) ==
    <<Str(row.role_id), PermissionName[row.permission_id],
      Str(row.organization_id), "access">>

LoadRolePermissions(rows) == {PolicyOf(row) : row \in rows}

\* _load_user_roles: users WHERE role_id IS NOT NULL, one grouping per row.
GroupingOf(u, roleOf) == <<Str(u), Str(roleOf[u]), Str(UserOrganization[u])>>

LoadUserRoles(roleOf) ==
    {GroupingOf(u, roleOf) : u \in {x \in UserIds : roleOf[x] # NoRole}}

\* ------------------------------------------------------ the policy engine
\* The matcher of rbac/model.conf: the roles the subject holds in the domain,
\* then a direct grant of one of them.  model.conf and the casbin library are
\* not among the sources; these three operators follow the specification of
\* the policy engine (two levels, no inheritance, no wildcard), and a call
\* into the engine reads the model as it is at that moment.
Evaluate(pol, grp, sub, obj, dom, act) ==
    \E g \in grp : g[1] = sub /\ g[3] = dom /\ <<g[2], obj, dom, act>> \in pol

RolesForUserInDomain(grp, sub, dom) ==
    {g[2] : g \in {x \in grp : x[1] = sub /\ x[3] = dom}}

PermissionsForUserInDomain(pol, role, dom) ==
    {p \in pol : p[1] = role /\ p[3] = dom}

\* -------------------------------------------------------- the decision cache
DecisionPrefix == "rbac:decision"

\* ex=60 of redis.set, in seconds.
DecisionTtl == 60

\* f"rbac:decision:{user_id}:{organization_id}:{permission_name}:{action}"
\* Variant of ScanDecisionKeys whose pattern matches no decision key.
ScanNoKeys(c) == {}

\* Variant of CacheKey that leaves the organization out of the key.
CacheKeyWithoutOrganization(a) ==
    <<DecisionPrefix, Str(a.user), "", a.perm, a.act>>

CacheKey(a) == <<DecisionPrefix, Str(a.user), Str(a.org), a.perm, a.act>>

\* Variant of ScanDecisionKeys whose pattern matches every key.
ScanEveryKey(c) == DOMAIN c

\* scan_iter(match="rbac:decision:*")
ScanDecisionKeys(c) == {k \in DOMAIN c : k[1] = DecisionPrefix}

\* redis.delete(*keys)
\* Variant of DeleteKeys that deletes nothing.
DeleteNoKeys(c, ks) == c

DeleteKeys(c, ks) == [k \in (DOMAIN c) \ ks |-> c[k]]

\* redis.set(cache_key, b"1" if decision else b"0", ex=60)
EncodeDecision(d) == IF d THEN "1" ELSE "0"

\* return cached == b"1"
\* Variant of CachedDecision that takes the truthiness of the cached bytes.
CachedDecisionTruthy(v) == v # ""

CachedDecision(v) == v = "1"

BoolStr(b) == IF b THEN "true" ELSE "false"

\* Variant of SortedNames that lists the names in descending order.
RECURSIVE DescendingNames(_)
DescendingNames(S) ==
    IF S = {} THEN <<>>
    ELSE LET ids == {i \in PermissionIds : PermissionName[i] \in S}
             hi == CHOOSE i \in ids : \A j \in ids : i >= j
         IN <<PermissionName[hi]>> \o DescendingNames(S \ {PermissionName[hi]})

\* sorted(permissions)
RECURSIVE SortedNames(_)
SortedNames(S) ==
    IF S = {} THEN <<>>
    ELSE LET ids == {i \in PermissionIds : PermissionName[i] \in S}
             lo == CHOOSE i \in ids : \A j \in ids : i <= j
         IN <<PermissionName[lo]>> \o SortedNames(S \ {PermissionName[lo]})

\* What the committed facts imply for a request (spec section 4.2).
Implied(roleOf, rows, a) ==
    /\ a.user \in UserIds
    /\ roleOf[a.user] # NoRole
    /\ UserOrganization[a.user] = a.org
    /\ a.act = "access"
    /\ \E row \in rows :
          /\ row.role_id = roleOf[a.user]
          /\ PermissionName[row.permission_id] = a.perm
          /\ row.organization_id = a.org

AllowedBy(pol, grp) ==
    {a \in [user : UserIds, perm : PermissionNames, org : OrgIds, act : Actions] :
        Evaluate(pol, grp, Str(a.user), a.perm, Str(a.org), a.act)}

\* ------------------------------------------- the tables after the migrations
\* db/migrations/versions/2025-01-15-00-10_seed_rbac.py: the default
\* organization with the roles super_admin and staff and their permissions
\* (the four seeded permissions are the two of PermissionIds here: super_admin
\* holds all of them, staff a part).  No user is seeded.
SeededOrganizations == <<"Default Organization">>

SeededRoles ==
    <<[organization_id |-> 1, role_name |-> "super_admin"],
      [organization_id |-> 1, role_name |-> "staff"]>>

RolePermissionRow(r, p, o) == [role_id |-> r, permission_id |-> p, organization_id |-> o]

SeededRolePermissions ==
    [row \in {RolePermissionRow(1, p, 1) : p \in PermissionIds}
                \cup {RolePermissionRow(2, 1, 1)} |-> 1]

NoRow == RolePermissionRow(0, 0, 0)

\* -------------------------------------------------------------------- Init
\* The service right after construction, over the fact store of the spec's
\* scenario: role 1 of organization 1 holds doc.write and user 1 holds role 1;
\* user 2 holds role 2 of organization 2, which has no grant.
InitialRolePermissions ==
    {[role_id |-> 1, permission_id |-> 2, organization_id |-> 1]}

InitialUserRole == (1 :> 1) @@ (2 :> 2)

\* The service over the facts (roleOf, rows) and the role ids `stored`, with
\* the tables orgs, roleTable and grantTable behind them and the keys
\* `cached` in redis; loaded: a reload has completed on the facts.
InitOver(roleOf, rows, loaded, stored, orgs, roleTable, grantTable, cached) ==
    /\ userRole = roleOf
    /\ rolePermissions = rows
    /\ storedRoles = stored
    /\ heldDeleted = {}
    /\ txn = [t \in Tasks |-> NoTxn]
    /\ policy = IF loaded THEN LoadRolePermissions(rows) ELSE {}
    /\ grouping = IF loaded THEN LoadUserRoles(roleOf) ELSE {}
    /\ policiesLoaded = loaded
    /\ lock = "free"
    /\ cache = cached
    /\ pc = [t \in Tasks |-> "idle"]
    /\ op = [t \in Tasks |-> "none"]
    /\ arg = [t \in Tasks |-> NoArg]
    /\ keys = [t \in Tasks |-> {}]
    /\ cursor = [t \in Tasks |-> {}]
    /\ decision = [t \in Tasks |-> NoDecision]
    /\ roles = [t \in Tasks |-> {}]
    /\ permissions = [t \in Tasks |-> {}]
    /\ result = [t \in Tasks |-> NoResult]
    /\ permsOut = [t \in Tasks |-> <<>>]
    /\ calls = 0
    /\ preReload = NoPre
    /\ mustReload = FALSE
    /\ loadedAllow = IF loaded
                     THEN AllowedBy(LoadRolePermissions(rows), LoadUserRoles(roleOf))
                     ELSE {}
    /\ quiet = [t \in Tasks |-> FALSE]
    /\ sessions = <<>>
    /\ rowLock = <<>>
    /\ clock = 0
    /\ issued = 0
    /\ requests = 0
    /\ spc = [t \in Tasks |-> "idle"]
    /\ sreq = [t \in Tasks |-> NoRequest]
    /\ srow = [t \in Tasks |-> NoWrite]
    /\ sres = [t \in Tasks |-> NoOutcome]
    /\ userPassword = [u \in UserIds |-> hash_password(InitialPassword)]
    /\ orgRows = orgs
    /\ roleRows = roleTable
    /\ userRows = <<>>
    /\ rolePermissionRows = grantTable
    /\ admins = 0
    /\ apc = [t \in Tasks |-> "idle"]
    /\ atx = [t \in Tasks |-> NoRow]
    /\ ares = [t \in Tasks |-> "none"]

\* The service over the migrated database.
InitWith(roleOf, rows, loaded) ==
    InitOver(roleOf, rows, loaded, RoleIds,
             SeededOrganizations, SeededRoles, SeededRolePermissions, <<>>)

InitStores == InitWith(InitialUserRole, InitialRolePermissions, FALSE)

\* The password-reset state after k forgot-password requests for the same
\* account, served one after the other within the hour: the counter stands at
\* k and only the k-th token is stored.
Served(k) ==
    /\ rateKey = [u \in ResetUsers |-> [n |-> k, ttl |-> k > 0]]
    /\ userKey = [u \in ResetUsers |-> k]
    /\ tokenKey = [token \in {k} \ {NoToken} |-> CHOOSE u \in ResetUsers : TRUE]
    /\ passwordResets = <<>>
    /\ minted = k
    /\ resets = 0
    /\ consumes = 0
    /\ rpc = [t \in Tasks |-> "idle"]
    /\ rloc = [t \in Tasks |-> NoLocals]
    /\ rres = NoReply
    /\ life = IF k > 0 THEN 1 ELSE 0
    /\ grants = [l \in 1..MaxLives |-> IF l = 1 THEN k ELSE 0]
    /\ latest = [u \in ResetUsers |-> k]
    /\ issuedTokens = 1..k
    /\ consumed = [token \in Tokens |-> 0]

Init == InitStores /\ Served(0)

\* The password-reset requests are followed from any number of earlier
\* requests up to a full counter.
InitReset == InitStores /\ \E k \in 0..RateLimit : Served(k)

\* ------------------------------------------------------- request bookkeeping
localVars == <<keys, cursor, decision, roles, permissions>>

\* Tasks are interchangeable: the first request of a behaviour is t1's.
Begin(t) ==
    /\ pc[t] = "idle"
    /\ calls < MaxCalls
    /\ calls = 0 => t = "t1"
    /\ calls' = calls + 1
    /\ permsOut' = [permsOut EXCEPT ![t] = <<>>]
    /\ quiet' = [u \in Tasks |->
                    u = t /\ \A v \in Tasks \ {t} : pc[v] = "idle"]

Running(t, o, a) ==
    /\ op' = [op EXCEPT ![t] = o]
    /\ arg' = [arg EXCEPT ![t] = a]

\* The request is over: its arguments go out of scope, its outcome stays until
\* the task starts its next request.
Return(t, v) ==
    /\ pc' = [pc EXCEPT ![t] = "idle"]
    /\ result' = [result EXCEPT ![t].val = v]
    /\ op' = [op EXCEPT ![t] = "none"]
    /\ arg' = [arg EXCEPT ![t] = NoArg]

\* ensure_policies_loaded, up to the first await that suspends: the flag is
\* read and, when it is false, reload_policies takes the lock at once if it is
\* free (asyncio.Lock.acquire does not yield then) or queues for it.
EnsurePoliciesLoaded(t, next) ==
    IF policiesLoaded
    THEN /\ pc' = [pc EXCEPT ![t] = next]
         /\ UNCHANGED <<lock, mustReload>>
    ELSE IF lock = "free"
    THEN /\ pc' = [pc EXCEPT ![t] = "scan"]
         /\ lock' = t
         /\ mustReload' = FALSE
    ELSE /\ pc' = [pc EXCEPT ![t] = "lockwait"]
         /\ UNCHANGED <<lock, mustReload>>

\* ------------------------------------------------------------------ enforce
\* RbacService.enforce, lines 90-93.
StartEnforce(t) ==
    \E a \in EnforceInputs :
        /\ Begin(t)
        /\ Running(t, "enforce", a)
        /\ EnsurePoliciesLoaded(t, "cget")
        /\ result' = [result EXCEPT ![t] = NoResult]
        /\ UNCHANGED <<sessVars, adminVars, resetVars, dbVars, txn, modelVars, policiesLoaded, cache, localVars,
                       preReload, loadedAllow>>

\* Variant of CacheGet whose hit renews the key's time to live (GETEX).
CacheGetExtendingTtl(t) ==
    /\ pc[t] = "cget"
    /\ IF CacheKey(arg[t]) \in DOMAIN cache
       THEN /\ Return(t, BoolStr(CachedDecision(cache[CacheKey(arg[t])].val)))
            /\ cache' = [cache EXCEPT ![CacheKey(arg[t])].ttl = DecisionTtl]
       ELSE /\ pc' = [pc EXCEPT ![t] = "eval"]
            /\ UNCHANGED <<result, op, arg, cache>>
    /\ UNCHANGED <<sessVars, adminVars, resetVars, dbVars, txn, modelVars, policiesLoaded, lock,
                   localVars, permsOut, calls, preReload, mustReload, loadedAllow, quiet>>

\* cached = await self._redis.get(cache_key), lines 94-97.
CacheGet(t) ==
    /\ pc[t] = "cget"
    /\ IF CacheKey(arg[t]) \in DOMAIN cache
       THEN Return(t, BoolStr(CachedDecision(cache[CacheKey(arg[t])].val)))
       ELSE /\ pc' = [pc EXCEPT ![t] = "eval"]
            /\ UNCHANGED <<result, op, arg>>
    /\ UNCHANGED <<sessVars, adminVars, resetVars, dbVars, txn, modelVars, policiesLoaded, lock, cache,
                   localVars, permsOut, calls, preReload, mustReload, loadedAllow, quiet>>

\* decision = await asyncio.to_thread(self._enforcer.enforce, ...), lines 98-104.
EvaluateDecision(t) ==
    /\ pc[t] = "eval"
    /\ decision' = [decision EXCEPT ![t] =
          [val |-> BoolStr(Evaluate(policy, grouping, Str(arg[t].user),
                                    arg[t].perm, Str(arg[t].org), arg[t].act)),
           old |-> FALSE]]
    /\ pc' = [pc EXCEPT ![t] = "cset"]
    /\ UNCHANGED <<sessVars, adminVars, resetVars, dbVars, txn, modelVars, policiesLoaded, lock, cache, op, arg,
                   keys, cursor, roles, permissions, result, permsOut, calls, preReload, mustReload, loadedAllow, quiet>>

\* await self._redis.set(...); return bool(decision), lines 112-115.
CacheSet(t) ==
    /\ pc[t] = "cset"
    /\ LET key == CacheKey(arg[t])
           entry == [val |-> EncodeDecision(decision[t].val = "true"),
                     old |-> decision[t].old, ttl |-> DecisionTtl, at |-> clock,
                     due |-> {}]
       IN cache' = [k \in (DOMAIN cache) \cup {key} |->
                       IF k = key THEN entry ELSE cache[k]]
    /\ Return(t, decision[t].val)
    /\ decision' = [decision EXCEPT ![t] = NoDecision]
    /\ UNCHANGED <<sessVars, adminVars, resetVars, dbVars, txn, modelVars, policiesLoaded, lock, keys, cursor,
                   roles, permissions, permsOut, calls, preReload, mustReload, loadedAllow, quiet>>

\* ------------------------------------------------------ get_user_permissions
\* lines 120-125: ensure, then the roles of the user in the domain.
StartPermissions(t) ==
    \E a \in PermissionsInputs :
        /\ Begin(t)
        /\ Running(t, "perms", a)
        /\ EnsurePoliciesLoaded(t, "roles")
        /\ result' = [result EXCEPT ![t] = NoResult]
        /\ UNCHANGED <<sessVars, adminVars, resetVars, dbVars, txn, modelVars, policiesLoaded, cache, localVars,
                       preReload, loadedAllow>>

ReadRoles(t) ==
    /\ pc[t] = "roles"
    /\ LET rs == RolesForUserInDomain(grouping, Str(arg[t].user), Str(arg[t].org))
       IN IF rs = {}
          THEN /\ Return(t, "list")
               /\ UNCHANGED roles
          ELSE /\ roles' = [roles EXCEPT ![t] = rs]
               /\ pc' = [pc EXCEPT ![t] = "perms"]
               /\ UNCHANGED <<result, op, arg>>
    /\ UNCHANGED <<sessVars, adminVars, resetVars, dbVars, txn, modelVars, policiesLoaded, lock, cache,
                   keys, cursor, decision, permissions, permsOut, calls, preReload, mustReload, loadedAllow, quiet>>

\* lines 127-135: one to_thread call per role, then sorted(permissions).
ReadPermissions(t) ==
    /\ pc[t] = "perms"
    /\ \E r \in roles[t] :
          LET found == {p[2] : p \in PermissionsForUserInDomain(policy, r,
                                                             Str(arg[t].org))}
              acc == permissions[t] \cup found
          IN IF roles[t] = {r}
             THEN /\ Return(t, "list")
                  /\ permsOut' = [permsOut EXCEPT ![t] = SortedNames(acc)]
                  /\ roles' = [roles EXCEPT ![t] = {}]
                  /\ permissions' = [permissions EXCEPT ![t] = {}]
             ELSE /\ roles' = [roles EXCEPT ![t] = @ \ {r}]
                  /\ permissions' = [permissions EXCEPT ![t] = acc]
                  /\ UNCHANGED <<pc, result, permsOut, op, arg>>
    /\ UNCHANGED <<sessVars, adminVars, resetVars, dbVars, txn, modelVars, policiesLoaded, lock, cache,
                   keys, cursor, decision, calls, preReload,
                   mustReload, loadedAllow, quiet>>

\* ------------------------------------------------------------ reload_policies
\* bootstrap_organization calls reload_policies directly (bootstrap/views.py).
StartReload(t) ==
    /\ Begin(t)
    /\ Running(t, "reload", NoArg)
    /\ IF lock = "free"
       THEN /\ lock' = t
            /\ pc' = [pc EXCEPT ![t] = "scan"]
            /\ mustReload' = FALSE
       ELSE /\ pc' = [pc EXCEPT ![t] = "lockwait"]
            /\ UNCHANGED <<lock, mustReload>>
    /\ result' = [result EXCEPT ![t] = NoResult]
    /\ UNCHANGED <<sessVars, adminVars, resetVars, dbVars, txn, modelVars, policiesLoaded, cache, localVars,
                   preReload, loadedAllow>>

\* Variant of AcquireLock that enters without waiting for the lock.
AcquireLockUnguarded(t) ==
    /\ pc[t] = "lockwait"
    /\ lock' = t
    /\ mustReload' = FALSE
    /\ pc' = [pc EXCEPT ![t] = "scan"]
    /\ UNCHANGED <<sessVars, adminVars, resetVars, dbVars, txn, modelVars, policiesLoaded, cache, op,
                   arg, localVars, result, permsOut, calls, preReload,
                   loadedAllow, quiet>>

\* async with self._lock, for a task that found the lock taken.
AcquireLock(t) ==
    /\ pc[t] = "lockwait"
    /\ lock = "free"
    /\ lock' = t
    /\ mustReload' = FALSE
    /\ pc' = [pc EXCEPT ![t] = "scan"]
    /\ UNCHANGED <<sessVars, adminVars, resetVars, dbVars, txn, modelVars, policiesLoaded, cache, op, arg,
                   localVars, result, permsOut, calls, preReload, loadedAllow,
                   quiet>>

\* Every decision read from the model that clear_policy() drops is from now on
\* a decision of an earlier model (history only).
MarkOld(c) == [k \in DOMAIN c |-> [c[k] EXCEPT !.old = TRUE]]

MarkOldDecisions(d) ==
    [u \in Tasks |-> IF d[u].val = "none" THEN d[u] ELSE [d[u] EXCEPT !.old = TRUE]]

\* What runs when _clear_cached_decisions returns, up to the next await.  In
\* reload_policies: self._enforcer.clear_policy() (line 48), the session is
\* opened and the first query sent.  In invalidate_cache: it returns to the
\* handler, which returns (its transaction commits afterwards).
\* `c` is the cache the redis call leaves.
AfterClearCache(t, c) ==
    IF op[t] \in {"enforce", "perms", "reload", "bootstrap"}
    THEN /\ preReload' = [policy |-> policy, grouping |-> grouping,
                          loaded |-> policiesLoaded, live |-> TRUE]
         /\ policy' = {}
         /\ grouping' = {}
         /\ cache' = MarkOld(c)
         /\ decision' = MarkOldDecisions(decision)
         /\ pc' = [pc EXCEPT ![t] = "loadrp"]
         /\ UNCHANGED <<result, mustReload, op, arg>>
    ELSE IF op[t] = "admin"
    THEN /\ pc' = [pc EXCEPT ![t] = "commit"]
         /\ mustReload' = TRUE
         /\ cache' = c
         /\ UNCHANGED <<result, modelVars, preReload, decision, op, arg>>
    ELSE /\ Return(t, "ok")
         /\ mustReload' = TRUE
         /\ cache' = c
         /\ UNCHANGED <<modelVars, preReload, decision>>

\* _clear_cached_decisions, lines 152-155: the scan collects the decision keys;
\* with none found nothing is deleted (line 158).
ScanKeys(t) ==
    /\ pc[t] = "scan"
    /\ LET found == ScanDecisionKeys(cache)
       IN IF found = {}
          THEN /\ AfterClearCache(t, cache)
               /\ UNCHANGED keys
          ELSE /\ keys' = [keys EXCEPT ![t] = found]
               /\ pc' = [pc EXCEPT ![t] = "delete"]
               /\ UNCHANGED <<result, mustReload, modelVars, preReload, cache,
                              decision, op, arg>>
    /\ UNCHANGED <<sessVars, adminVars, resetVars, dbVars, txn, policiesLoaded, lock, roles, permissions,
                   permsOut, calls, loadedAllow, quiet, cursor>>

\* _clear_cached_decisions, lines 158-159: the collected keys are deleted.
DeleteScanned(t) ==
    /\ pc[t] = "delete"
    /\ keys' = [keys EXCEPT ![t] = {}]
    /\ UNCHANGED cursor
    /\ AfterClearCache(t, DeleteKeys(cache, keys[t]))
    /\ UNCHANGED <<sessVars, adminVars, resetVars, dbVars, txn, policiesLoaded, lock, roles, permissions,
                   permsOut, calls, loadedAllow, quiet>>

\* _load_role_permissions: the rows of the committed store become policies.
LoadPolicies(t) ==
    /\ pc[t] = "loadrp"
    /\ policy' = policy \cup LoadRolePermissions(rolePermissions)
    /\ pc' = [pc EXCEPT ![t] = "loadur"]
    /\ UNCHANGED <<sessVars, adminVars, resetVars, dbVars, txn, grouping, policiesLoaded, lock, cache, op, arg,
                   localVars, result, permsOut, calls, preReload, mustReload,
                   loadedAllow, quiet>>

\* _load_user_roles: the users that hold a role become groupings; the session
\* is then closed.
LoadGroupings(t) ==
    /\ pc[t] = "loadur"
    /\ grouping' = grouping \cup LoadUserRoles(userRole)
    /\ loadedAllow' = loadedAllow \cup AllowedBy(policy, grouping')
    /\ pc' = [pc EXCEPT ![t] = "finish"]
    /\ UNCHANGED <<sessVars, adminVars, resetVars, dbVars, txn, policy, policiesLoaded, lock, cache, op, arg,
                   localVars, result, permsOut, calls, preReload, mustReload,
                   quiet>>

\* self._policies_loaded = True (line 52), the lock is released and the caller
\* goes on to its next await.
FinishReload(t) ==
    /\ pc[t] = "finish"
    /\ policiesLoaded' = TRUE
    /\ lock' = "free"
    /\ preReload' = NoPre
    /\ IF op[t] = "enforce"
       THEN /\ pc' = [pc EXCEPT ![t] = "cget"]
            /\ UNCHANGED <<op, arg, result>>
       ELSE IF op[t] = "perms"
       THEN /\ pc' = [pc EXCEPT ![t] = "roles"]
            /\ UNCHANGED <<op, arg, result>>
       ELSE IF op[t] = "bootstrap"
       THEN /\ pc' = [pc EXCEPT ![t] = "commit"]
            /\ UNCHANGED <<op, arg, result>>
       ELSE /\ Return(t, "ok")
    /\ UNCHANGED <<sessVars, adminVars, resetVars, dbVars, txn, modelVars, cache, localVars, permsOut, calls,
                   mustReload, loadedAllow, quiet>>

\* ----------------------------------------------------------- invalidate_cache
\* POST /internal/cache/invalidate: self._policies_loaded = False (line 140),
\* then the cached decisions are cleared.
StartInvalidate(t) ==
    /\ Begin(t)
    /\ Running(t, "invalidate", NoArg)
    /\ policiesLoaded' = FALSE
    /\ pc' = [pc EXCEPT ![t] = "scan"]
    /\ result' = [result EXCEPT ![t] = NoResult]
    /\ UNCHANGED <<sessVars, adminVars, resetVars, dbVars, txn, modelVars, lock, cache, localVars, preReload, mustReload, loadedAllow>>

\* ------------------------------------------------- administrative mutations
Mutations ==
    [kind : {"assign_permission", "revoke_permission"}, user : {0},
     role : {1}, perm : {2}]
    \cup [kind : {"assign_role"}, user : {1}, role : RoleIds, perm : {0}]
    \cup [kind : {"revoke_role"}, user : {1}, role : {1}, perm : {0}]
    \cup [kind : {"delete_role"}, user : {0}, role : {1}, perm : {0}]

RowOf(m) ==
    [role_id |-> m.role, permission_id |-> m.perm,
     organization_id |-> RoleOrganization[m.role]]

\* The checks of RbacAdminService before it writes.
Accepted(m, roleOf, rows) ==
    CASE m.kind = "assign_permission" -> RowOf(m) \notin rows
      [] m.kind = "revoke_permission" -> RowOf(m) \in rows
      [] m.kind = "assign_role" -> UserOrganization[m.user] = RoleOrganization[m.role]
      [] m.kind = "revoke_role" -> roleOf[m.user] = m.role
      [] m.kind = "delete_role" -> TRUE

\* session.get(Role, role_id) of the views that name a role: 404 if the role
\* is gone (revoke_role_from_user does not load the role).
RoleFound(m, stored) == m.kind # "revoke_role" => m.role \in stored

\* delete_role updates the users of the role, deletes its role_permissions
\* and the role row; every other mutation here writes one of these rows or
\* references the role row (foreign keys of users and role_permissions).  The
\* database makes the later of two such transactions wait for the earlier.
Blocked(t, m) ==
    \E u \in Tasks \ {t} :
        /\ txn[u] # NoTxn
        /\ m.kind = "delete_role" \/ txn[u].kind = "delete_role"

ApplyRows(m, rows) ==
    CASE m.kind = "assign_permission" -> rows \cup {RowOf(m)}
      [] m.kind = "revoke_permission" -> rows \ {RowOf(m)}
      [] m.kind = "delete_role" -> {row \in rows : row.role_id # m.role}
      [] OTHER -> rows

ApplyRoles(m, roleOf) ==
    CASE m.kind = "assign_role" -> [roleOf EXCEPT ![m.user] = m.role]
      [] m.kind = "revoke_role" -> [roleOf EXCEPT ![m.user] = NoRole]
      [] m.kind = "delete_role" ->
             [u \in DOMAIN roleOf |-> IF roleOf[u] = m.role THEN NoRole ELSE roleOf[u]]
      [] OTHER -> roleOf

\* DELETE FROM uuh_roles
ApplyStored(m, stored) ==
    IF m.kind = "delete_role" THEN stored \ {m.role} ELSE stored

\* The users delete_role takes the role from.
Holders(m, roleOf) ==
    IF m.kind = "delete_role" THEN {u \in DOMAIN roleOf : roleOf[u] = m.role} ELSE {}

\* An RBAC admin handler up to its flush: the mutation is written in the
\* request's own transaction, or refused (HTTP 4xx, nothing invalidated).
StartAdmin(t) ==
    \E m \in Mutations :
        /\ Begin(t)
        /\ ~Blocked(t, m)
        /\ IF RoleFound(m, storedRoles) /\ Accepted(m, userRole, rolePermissions)
           THEN /\ Running(t, "admin", NoArg)
                /\ txn' = [txn EXCEPT ![t] = m]
                /\ pc' = [pc EXCEPT ![t] = "invalidate"]
                /\ result' = [result EXCEPT ![t] = NoResult]
           ELSE /\ pc' = [pc EXCEPT ![t] = "idle"]
                /\ result' = [result EXCEPT ![t] =
                                 [val |-> "rejected"]]
                /\ UNCHANGED <<txn, op, arg>>
        /\ UNCHANGED <<sessVars, adminVars, resetVars, dbVars, modelVars, policiesLoaded, lock, cache, localVars,
                       preReload, mustReload,
                       loadedAllow>>

\* await _get_rbac_service(request).invalidate_cache(), last line of a handler.
AdminInvalidate(t) ==
    /\ pc[t] = "invalidate"
    /\ policiesLoaded' = FALSE
    /\ pc' = [pc EXCEPT ![t] = "scan"]
    /\ UNCHANGED <<sessVars, adminVars, resetVars, dbVars, txn, modelVars, lock, cache, op, arg, localVars,
                   result, permsOut, calls, preReload,
                   mustReload, loadedAllow, quiet>>

\* get_db_session after the handler returned: await session.commit().
Commit(t) ==
    /\ pc[t] = "commit"
    /\ txn[t] \in Mutations
    /\ rolePermissions' = ApplyRows(txn[t], rolePermissions)
    /\ userRole' = ApplyRoles(txn[t], userRole)
    /\ storedRoles' = ApplyStored(txn[t], storedRoles)
    /\ heldDeleted' = heldDeleted \cup Holders(txn[t], userRole)
    /\ txn' = [txn EXCEPT ![t] = NoTxn]
    /\ Return(t, "ok")
    /\ UNCHANGED <<sessVars, adminVars, resetVars, modelVars, policiesLoaded, lock, cache, localVars,
                   permsOut, calls, preReload,
                   mustReload, loadedAllow, quiet>>

\* ------------------------------------------------------------------ failures
\* redis or the database raises at an await: the exception leaves the service
\* method (async with releases the lock) and the request (get_db_session rolls
\* back).  Nothing else is undone.
IoPoints == {"scan", "iter", "batch", "delete", "loadrp", "loadur", "cget", "cset"}

Fail(t) ==
    /\ pc[t] \in IoPoints
    /\ lock' = IF lock = t THEN "free" ELSE lock
    /\ preReload' = IF lock = t THEN NoPre ELSE preReload
    /\ txn' = [txn EXCEPT ![t] = NoTxn]
    /\ keys' = [keys EXCEPT ![t] = {}]
    /\ cursor' = [cursor EXCEPT ![t] = {}]
    /\ decision' = [decision EXCEPT ![t] = NoDecision]
    /\ Return(t, "error")
    /\ UNCHANGED <<sessVars, adminVars, resetVars, dbVars, modelVars, policiesLoaded, cache, roles,
                   permissions, permsOut, calls, mustReload, loadedAllow, quiet>>

\* ---------------------------------------------------------------------- Next
Next ==
    \E t \in Tasks :
        \/ StartEnforce(t)
        \/ CacheGet(t)
        \/ EvaluateDecision(t)
        \/ CacheSet(t)
        \/ StartPermissions(t)
        \/ ReadRoles(t)
        \/ ReadPermissions(t)
        \/ StartReload(t)
        \/ AcquireLock(t)
        \/ ScanKeys(t)
        \/ DeleteScanned(t)
        \/ LoadPolicies(t)
        \/ LoadGroupings(t)
        \/ FinishReload(t)
        \/ StartInvalidate(t)
        \/ StartAdmin(t)
        \/ AdminInvalidate(t)
        \/ Commit(t)
        \/ Fail(t)

Spec == Init /\ [][Next]_vars

\* ------------------------------------------------ reads of a loaded model
\* enforce and get_user_permissions on a model that a completed reload left
\* in memory, for every fact store of two roles and two permissions in which
\* a role holds permissions in its own organization.
TenantRows ==
    {row \in [role_id : RoleIds, permission_id : PermissionIds, organization_id : OrgIds] :
        row.organization_id = RoleOrganization[row.role_id]}

InitLoaded ==
    /\ \E roleOf \in [UserIds -> RoleIds \cup {NoRole}], rows \in SUBSET TenantRows :
           InitWith(roleOf, rows, TRUE)
    /\ Served(0)

NextPermissions ==
    \E t \in Tasks :
        \/ StartEnforce(t)
        \/ CacheGet(t)
        \/ EvaluateDecision(t)
        \/ CacheSet(t)
        \/ StartPermissions(t)
        \/ ReadRoles(t)
        \/ ReadPermissions(t)

SpecPermissions == InitLoaded /\ [][NextPermissions]_vars

\* ================================================================= sessions

SessionIds == 1..Len(sessions)

\* _get_client_ip / _get_user_agent of the login and of the refresh request.
LoginClient == "login-client"
RefreshClient == "refresh-client"

SBegin(t) ==
    /\ spc[t] = "idle"
    /\ requests < MaxRequests
    /\ requests = 0 => t = "t1"
    /\ requests' = requests + 1

\* The request ends: its transaction is over, the row lock it held is free.
SReturn(t, outcome) ==
    /\ spc' = [spc EXCEPT ![t] = "idle"]
    /\ sres' = [sres EXCEPT ![t] = outcome]
    /\ sreq' = [sreq EXCEPT ![t] = NoRequest]
    /\ srow' = [srow EXCEPT ![t] = NoWrite]
    /\ rowLock' = [i \in DOMAIN rowLock |->
                      IF rowLock[i] = t THEN "free" ELSE rowLock[i]]

Refused(t, why) ==
    SReturn(t, [NoOutcome EXCEPT !.status = why, !.sid = sreq[t].sid,
                                 !.presented = sreq[t].token])

\* The users that log in (access tokens may still name any user).
LoginUsers == {1}

\* POST /login: authenticate_user compares the password with the stored hash
\* (invalid_credentials otherwise), then AuthService.create_session and the
\* commit of the request.  The row is visible to others from the commit on;
\* secrets.token_urlsafe gives a token never seen before.
Login(t) ==
    \E u \in LoginUsers, pw \in Passwords :
        /\ SBegin(t)
        /\ IF ~verify_password(pw, userPassword[u])
           THEN /\ Refused(t, "invalid_credentials")
                /\ UNCHANGED <<sessions, issued>>
           ELSE /\ issued' = issued + 1
                /\ sessions' = Append(sessions,
                                 [user_id |-> u,
                                  hash |-> hash_password(issued + 1),
                                  expires |-> clock + RefreshTtl,
                                  revoked_at |-> Null,
                                  last_refreshed_at |-> Null,
                                  client |-> LoginClient])
                /\ rowLock' = Append(rowLock, "free")
                /\ sres' = [sres EXCEPT ![t] =
                              [NoOutcome EXCEPT !.status = "created",
                                                !.sid = Len(sessions) + 1,
                                                !.token = issued + 1]]
                /\ UNCHANGED <<spc, sreq, srow>>
        /\ UNCHANGED <<rbacVars, adminVars, resetVars, userPassword, clock>>

\* POST /password/reset: reset_password looks the reset token up (u = 0: no
\* such token, invalid_token), sets the user's password hash, and the request
\* commits.  It reads and writes no UserLogin row.
ResetPassword(t) ==
    \E u \in LoginUsers \cup {0}, pw \in Passwords :
        /\ SBegin(t)
        /\ IF u = 0
           THEN Refused(t, "invalid_token") /\ UNCHANGED userPassword
           ELSE /\ userPassword' = [userPassword EXCEPT ![u] = hash_password(pw)]
                /\ SReturn(t, [NoOutcome EXCEPT !.status = "password_reset"])
        /\ UNCHANGED <<rbacVars, adminVars, resetVars, sessions, clock, issued>>

\* POST /refresh arrives with a session_id (known or not) and a refresh token
\* (0: a string that was never issued); the SELECT of get_session is sent.
StartRefresh(t) ==
    \E sid \in 1..(Len(sessions) + 1), tok \in 0..issued :
        /\ SBegin(t)
        /\ spc' = [spc EXCEPT ![t] = "get"]
        /\ sreq' = [sreq EXCEPT ![t] = [NoRequest EXCEPT !.sid = sid, !.token = tok]]
        /\ sres' = [sres EXCEPT ![t] = NoOutcome]
        /\ UNCHANGED <<rbacVars, adminVars, resetVars, userPassword, sessions, rowLock, clock, issued, srow>>

\* Variant of RefreshCheck that looks at the expiry before the revocation.
RefreshCheckExpiryFirst(row, tok, now) ==
    IF row.expires < now THEN "refresh_expired"
    ELSE IF row.revoked_at # Null THEN "session_revoked"
    ELSE IF ~verify_password(tok, row.hash) THEN "invalid_refresh_token"
    ELSE "ok"

\* The checks of refresh_session on the loaded row, lines 207-215.
RefreshCheck(row, tok, now) ==
    IF row.revoked_at # Null THEN "session_revoked"
    ELSE IF row.expires < now THEN "refresh_expired"
    ELSE IF ~verify_password(tok, row.hash) THEN "invalid_refresh_token"
    ELSE "ok"

\* get_session returns the committed row; refresh_session checks it and
\* rotates the token on the loaded object (lines 207-226), then awaits flush.
RefreshSession(t) ==
    /\ spc[t] = "get"
    /\ IF sreq[t].sid \notin SessionIds
       THEN Refused(t, "session_not_found") /\ UNCHANGED issued
       ELSE LET verdict == RefreshCheck(sessions[sreq[t].sid], sreq[t].token, clock)
            IN IF verdict # "ok"
               THEN Refused(t, verdict) /\ UNCHANGED issued
               ELSE /\ issued' = issued + 1
                    /\ srow' = [srow EXCEPT ![t] =
                                  [kind |-> "rotate",
                                   hash |-> hash_password(issued + 1),
                                   expires |-> clock + RefreshTtl,
                                   at |-> clock,
                                   token |-> issued + 1]]
                    /\ spc' = [spc EXCEPT ![t] = "flush"]
                    /\ UNCHANGED <<sres, sreq, rowLock>>
    /\ UNCHANGED <<rbacVars, adminVars, resetVars, userPassword, sessions, clock, requests>>

\* await self._session.flush(): the UPDATE of the row waits for the
\* transaction that wrote the row last to end, then holds the row itself.
Flush(t) ==
    /\ spc[t] = "flush"
    /\ rowLock[sreq[t].sid] = "free"
    /\ rowLock' = [rowLock EXCEPT ![sreq[t].sid] = t]
    /\ spc' = [spc EXCEPT ![t] = "commit"]
    /\ UNCHANGED <<rbacVars, adminVars, resetVars, userPassword, sessions, clock, issued, requests, sreq, srow, sres>>

\* Variant of Written in which the UPDATE also writes the user_id column,
\* with the value of a request that never set it.
WrittenWithOwner(row, w) ==
    IF w.kind = "rotate"
    THEN [row EXCEPT !.hash = w.hash, !.expires = w.expires,
                     !.last_refreshed_at = w.at, !.client = RefreshClient,
                     !.user_id = 0]
    ELSE [row EXCEPT !.revoked_at = w.at, !.user_id = 0]

\* The UPDATE a request flushed: the columns it changed on its loaded object,
\* written over the row as it is at the commit.
Written(row, w) ==
    IF w.kind = "rotate"
    THEN [row EXCEPT !.hash = w.hash, !.expires = w.expires,
                     !.last_refreshed_at = w.at, !.client = RefreshClient]
    ELSE [row EXCEPT !.revoked_at = w.at]

\* The handler returns and get_db_session commits.
CommitSession(t) ==
    /\ spc[t] = "commit"
    /\ sessions' = [sessions EXCEPT ![sreq[t].sid] = Written(@, srow[t])]
    /\ SReturn(t, [NoOutcome EXCEPT
                     !.status = IF srow[t].kind = "rotate"
                                THEN "refreshed" ELSE "revoked",
                     !.sid = sreq[t].sid, !.presented = sreq[t].token,
                     !.token = srow[t].token])
    /\ UNCHANGED <<rbacVars, adminVars, resetVars, userPassword, clock, issued, requests>>

\* What an access token can carry: a token that does not verify, a verified
\* payload that lacks its subject or its session id (0: the claim is absent),
\* or a verified payload naming a user and a session, known or not.
TokenPayloads ==
    {[NoRequest EXCEPT !.valid = FALSE],
     [NoRequest EXCEPT !.valid = TRUE, !.sub = 0, !.sid = 1],
     [NoRequest EXCEPT !.valid = TRUE, !.sub = 1, !.sid = 0]}
        \cup {[NoRequest EXCEPT !.valid = TRUE, !.sub = u, !.sid = sid] :
                 u \in UserIds, sid \in 1..(Len(sessions) + 1)}

\* The access token a login or refresh of session sid issued.
IssuedPayload(sid) ==
    [NoRequest EXCEPT !.valid = TRUE, !.sub = sessions[sid].user_id, !.sid = sid]

\* Variant of PrincipalCheck without the comparison of the session's user
\* with the token's subject.
PrincipalCheckAnyOwner(req, rows, now) ==
    IF ~req.valid THEN "invalid_token"
    ELSE IF req.sub = 0 \/ req.sid = 0 THEN "invalid_token_payload"
    ELSE IF req.sid \notin DOMAIN rows THEN "session_not_found"
    ELSE IF rows[req.sid].revoked_at # Null THEN "session_revoked"
    ELSE IF rows[req.sid].expires < now THEN "session_expired"
    ELSE "ok"

\* get_current_principal up to the session checks, lines 46-81.
PrincipalCheck(req, rows, now) ==
    IF ~req.valid THEN "invalid_token"
    ELSE IF req.sub = 0 \/ req.sid = 0 THEN "invalid_token_payload"
    ELSE IF req.sid \notin DOMAIN rows THEN "session_not_found"
    ELSE IF rows[req.sid].user_id # req.sub THEN "session_not_found"
    ELSE IF rows[req.sid].revoked_at # Null THEN "session_revoked"
    ELSE IF rows[req.sid].expires < now THEN "session_expired"
    ELSE "ok"

\* A request behind get_current_principal (GET /me) arrives with a bearer
\* token; the SELECT of the session is sent.
StartResolve(t) ==
    \E req \in TokenPayloads :
        /\ SBegin(t)
        /\ spc' = [spc EXCEPT ![t] = "session"]
        /\ sreq' = [sreq EXCEPT ![t] = req]
        /\ sres' = [sres EXCEPT ![t] = NoOutcome]
        /\ UNCHANGED <<rbacVars, adminVars, resetVars, userPassword, sessions, rowLock, clock, issued, srow>>

\* get_current_principal: the session is read and checked, then the user is
\* fetched (await session.get(User, user_id)).
ResolveSession(t) ==
    /\ spc[t] = "session"
    /\ LET verdict == PrincipalCheck(sreq[t], sessions, clock)
       IN IF verdict # "ok"
          THEN Refused(t, verdict)
          ELSE /\ spc' = [spc EXCEPT ![t] = "user"]
               /\ UNCHANGED <<sres, sreq, srow, rowLock>>
    /\ UNCHANGED <<rbacVars, adminVars, resetVars, userPassword, sessions, clock, issued, requests>>

\* The principal get_current_principal returns, lines 83-96.
PrincipalOf(req, roleOf) ==
    [user_id |-> req.sub, session_id |-> req.sid,
     organization_id |-> UserOrganization[req.sub], role_id |-> roleOf[req.sub]]

ResolveUser(t) ==
    /\ spc[t] = "user"
    /\ IF sreq[t].sub \notin UserIds
       THEN Refused(t, "user_not_found")
       ELSE SReturn(t, [NoOutcome EXCEPT !.status = "principal",
                                          !.sid = sreq[t].sid,
                                          !.principal = PrincipalOf(sreq[t], userRole)])
    /\ UNCHANGED <<rbacVars, adminVars, resetVars, userPassword, sessions, clock, issued, requests>>

\* POST /logout with the access token of a session: the SELECT is sent.
StartLogout(t) ==
    \E sid \in SessionIds :
        /\ SBegin(t)
        /\ spc' = [spc EXCEPT ![t] = "principal"]
        /\ sreq' = [sreq EXCEPT ![t] = IssuedPayload(sid)]
        /\ sres' = [sres EXCEPT ![t] = NoOutcome]
        /\ UNCHANGED <<rbacVars, adminVars, resetVars, userPassword, sessions, rowLock, clock, issued, srow>>

\* get_current_principal accepts the session or answers 401; logout then sets
\* revoked_at on the loaded object (revoke_session) and awaits its flush.
RevokeSession(t) ==
    /\ spc[t] = "principal"
    /\ LET verdict == PrincipalCheck(sreq[t], sessions, clock)
       IN IF verdict # "ok"
          THEN Refused(t, verdict)
          ELSE /\ srow' = [srow EXCEPT ![t] =
                             [NoWrite EXCEPT !.kind = "revoke", !.at = clock]]
               /\ spc' = [spc EXCEPT ![t] = "flush"]
               /\ UNCHANGED <<sres, sreq, rowLock>>
    /\ UNCHANGED <<rbacVars, adminVars, resetVars, userPassword, sessions, clock, issued, requests>>

\* Time passes.
Tick ==
    /\ clock < MaxClock
    /\ clock' = clock + 1
    /\ UNCHANGED <<rbacVars, adminVars, resetVars, userPassword, sessions, rowLock, issued, requests, spc, sreq,
                   srow, sres>>

\* The database raises at an await: get_db_session rolls the request back.
SessionFail(t) ==
    /\ spc[t] # "idle"
    /\ Refused(t, "error")
    /\ UNCHANGED <<rbacVars, adminVars, resetVars, userPassword, sessions, clock, issued, requests>>

NextSession ==
    \/ \E t \in Tasks :
          \/ Login(t)
          \/ ResetPassword(t)
          \/ StartRefresh(t)
          \/ RefreshSession(t)
          \/ Flush(t)
          \/ CommitSession(t)
          \/ StartResolve(t)
          \/ ResolveSession(t)
          \/ ResolveUser(t)
          \/ StartLogout(t)
          \/ RevokeSession(t)
          \/ SessionFail(t)
    \/ Tick

SpecSession == Init /\ [][NextSession]_vars

\* ========================================================== administration
\* The handlers that write users, roles and role permissions.  Each runs in
\* the transaction of its request (get_db_session) or of the command
\* (session.begin() in cli.py); transactions are taken one after the other,
\* except that assign_permission_to_role is split at its flush, where the
\* primary key of role_permissions decides between two concurrent inserts.
\* Usernames, emails and permission names are fresh or present as needed.

\* services/bootstrap.py and services/organizations.py
SUPER_ADMIN_ROLE_NAME == "super_admin"
ROOT_ORGANIZATION_NAME == "RootOrg"

\* ADMIN_PERMISSION_NAMES and SUPER_ADMIN_PERMISSION_NAMES (a superset), as
\* permission ids.
AdminPermissions == {1}
SuperAdminPermissions == {1, 2}

\* OrganizationService._build_admin_role_name
AdminRoleName(organization_id) == "org_" \o ToString(organization_id) \o "_admin"

\* What clients send as organization_name and role_name.
OrganizationNames == {"Acme"}
RoleNames == {"auditor", SUPER_ADMIN_ROLE_NAME}

OrganizationIds == 1..Len(orgRows)
StoredRoleIds == 1..Len(roleRows)
StoredUserIds == 1..Len(userRows)

\* Ids a client may name: the stored ones and one that does not exist.
NamedRoleIds == 1..(Len(roleRows) + 1)

\* INSERT INTO role_permissions of rows the table does not hold yet.
InsertRows(table, rows) ==
    [row \in (DOMAIN table) \cup rows |->
        (IF row \in DOMAIN table THEN table[row] ELSE 0) + (IF row \in rows THEN 1 ELSE 0)]

\* UserService.ensure_role_in_organization: count of roles with this id in
\* this organization.
ensure_role_in_organization(organization_id, role_id) ==
    /\ role_id \in StoredRoleIds
    /\ roleRows[role_id].organization_id = organization_id

\* The role a SELECT by name returns, 0 for None (role_name is unique).
RoleNamed(name) ==
    IF \E r \in StoredRoleIds : roleRows[r].role_name = name
    THEN CHOOSE r \in StoredRoleIds : roleRows[r].role_name = name
    ELSE 0

\* ... WHERE organization_id = :org AND role_name = :name
RoleNamedIn(organization_id, name) ==
    IF RoleNamed(name) # 0 /\ roleRows[RoleNamed(name)].organization_id = organization_id
    THEN RoleNamed(name)
    ELSE 0

\* The organization a SELECT by name returns, 0 for None.
OrganizationNamed(name) ==
    IF \E o \in OrganizationIds : orgRows[o] = name
    THEN CHOOSE o \in OrganizationIds : orgRows[o] = name
    ELSE 0

\* The permission ids already assigned to a role within an organization.
AssignedIn(role_id, organization_id) ==
    {row.permission_id : row \in {x \in DOMAIN rolePermissionRows :
                                     /\ rolePermissionRows[x] > 0
                                     /\ x.role_id = role_id
                                     /\ x.organization_id = organization_id}}

ABegin(t) ==
    /\ apc[t] = "idle"
    /\ admins < MaxAdmin
    /\ admins = 0 => t = "t1"
    /\ admins' = admins + 1

\* The request ends with this outcome.
AReturn(t, outcome) ==
    /\ ares' = [ares EXCEPT ![t] = outcome]
    /\ apc' = [apc EXCEPT ![t] = "idle"]
    /\ atx' = [atx EXCEPT ![t] = NoRow]

\* The request is refused (HTTP 4xx, or the database raises): rollback.
ARefused(t, why) ==
    /\ AReturn(t, why)
    /\ UNCHANGED <<orgRows, roleRows, userRows, rolePermissionRows>>

\* AuthService.register_user: INSERT INTO uuh_users.
RegisteredUser(organization_id, role_id) ==
    Append(userRows, [organization_id |-> organization_id, role_id |-> role_id])

\* POST /auth/register: organization_id and role_id are taken from the body
\* as they are; the foreign keys of uuh_users refuse ids that do not exist.
RegisterUser(t) ==
    \E o \in 1..(Len(orgRows) + 1), r \in {NoRole} \cup NamedRoleIds :
        /\ ABegin(t)
        /\ IF o \notin OrganizationIds \/ (r # NoRole /\ r \notin StoredRoleIds)
           THEN ARefused(t, "integrity_error")
           ELSE /\ userRows' = RegisteredUser(o, r)
                /\ AReturn(t, "registered")
                /\ UNCHANGED <<orgRows, roleRows, rolePermissionRows>>
        /\ UNCHANGED <<rbacVars, sessVars, resetVars>>

\* POST /v1/orgs/{organization_id}/users by a principal of that organization.
CreateUserInOrganization(t) ==
    \E o \in OrganizationIds, r \in {NoRole} \cup NamedRoleIds :
        /\ ABegin(t)
        /\ IF r # NoRole /\ ~ensure_role_in_organization(o, r)
           THEN ARefused(t, "role_not_in_organization")
           ELSE /\ userRows' = RegisteredUser(o, r)
                /\ AReturn(t, "user_created")
                /\ UNCHANGED <<orgRows, roleRows, rolePermissionRows>>
        /\ UNCHANGED <<rbacVars, sessVars, resetVars>>

\* PATCH /v1/users/{user_id} with a role_id (NoRole: null): update_user sets
\* the field and then checks it; the exception rolls the request back.
UpdateUser(t) ==
    \E u \in StoredUserIds, r \in {NoRole} \cup NamedRoleIds :
        /\ ABegin(t)
        /\ IF r # NoRole /\ ~ensure_role_in_organization(userRows[u].organization_id, r)
           THEN ARefused(t, "role_not_in_organization")
           ELSE /\ userRows' = [userRows EXCEPT ![u].role_id = r]
                /\ AReturn(t, "user_updated")
                /\ UNCHANGED <<orgRows, roleRows, rolePermissionRows>>
        /\ UNCHANGED <<rbacVars, sessVars, resetVars>>

\* POST /v1/users/{user_id}/roles by a principal of organization o: the view
\* hides users and roles of other organizations, then
\* RbacAdminService.assign_role_to_user compares the two organizations.
AssignRoleToUser(t) ==
    \E o \in OrganizationIds, u \in StoredUserIds, r \in NamedRoleIds :
        /\ ABegin(t)
        /\ IF userRows[u].organization_id # o
           THEN ARefused(t, "user_not_found")
           ELSE IF r \notin StoredRoleIds \/ roleRows[r].organization_id # o
           THEN ARefused(t, "role_not_found")
           ELSE IF userRows[u].organization_id # roleRows[r].organization_id
           THEN ARefused(t, "role_not_in_organization")
           ELSE /\ userRows' = [userRows EXCEPT ![u].role_id = r]
                /\ AReturn(t, "role_assigned")
                /\ UNCHANGED <<orgRows, roleRows, rolePermissionRows>>
        /\ UNCHANGED <<rbacVars, sessVars, resetVars>>

\* POST /v1/roles by a principal of organization o: role names are unique
\* over all organizations.
CreateRole(t) ==
    \E o \in OrganizationIds, name \in RoleNames :
        /\ ABegin(t)
        /\ IF RoleNamed(name) # 0
           THEN ARefused(t, "role_name_exists")
           ELSE /\ roleRows' = Append(roleRows, [organization_id |-> o, role_name |-> name])
                /\ AReturn(t, "role_created")
                /\ UNCHANGED <<orgRows, userRows, rolePermissionRows>>
        /\ UNCHANGED <<rbacVars, sessVars, resetVars>>

\* OrganizationService.ensure_admin_role for organization o, followed by
\* register_user with that role: the role is looked up by organization and
\* name and created if missing, the permissions it lacks are inserted.
WithOrganizationAdmin(o, orgs) ==
    LET found == RoleNamedIn(o, AdminRoleName(o))
        role_id == IF found = 0 THEN Len(roleRows) + 1 ELSE found
    IN /\ orgRows' = orgs
       /\ roleRows' = IF found = 0
                      THEN Append(roleRows, [organization_id |-> o,
                                             role_name |-> AdminRoleName(o)])
                      ELSE roleRows
       /\ rolePermissionRows' =
              InsertRows(rolePermissionRows,
                         {RolePermissionRow(role_id, p, o) :
                              p \in AdminPermissions \ AssignedIn(role_id, o)})
       /\ userRows' = RegisteredUser(o, role_id)

\* POST /v1/orgs/{organization_id}/admins
CreateOrgAdmin(t) ==
    \E o \in OrganizationIds :
        /\ ABegin(t)
        /\ WithOrganizationAdmin(o, orgRows)
        /\ AReturn(t, "admin_created")
        /\ UNCHANGED <<rbacVars, sessVars, resetVars>>

\* POST /v1/bootstrap/organization while organizations exist (the seeded one
\* always does): create_organization and its administrator.
BootstrapOrganization(t) ==
    \E name \in OrganizationNames :
        /\ ABegin(t)
        /\ IF OrganizationNamed(name) # 0
           THEN ARefused(t, "organization_exists")
           ELSE /\ WithOrganizationAdmin(Len(orgRows) + 1, Append(orgRows, name))
                /\ AReturn(t, "organization_created")
        /\ UNCHANGED <<rbacVars, sessVars, resetVars>>

\* The createsuperuser command: PlatformBootstrapService.bootstrap_superuser.
\* ensure_root_organization finds or creates RootOrg; ensure_super_admin_role
\* looks the role up by name only, creates it in the root organization if
\* there is none, and inserts the permissions not yet assigned to it within
\* the root organization; a user is registered in the root organization with
\* that role unless some user already holds it.
CreateSuperuser(t) ==
    LET known == OrganizationNamed(ROOT_ORGANIZATION_NAME)
        root == IF known = 0 THEN Len(orgRows) + 1 ELSE known
        found == RoleNamed(SUPER_ADMIN_ROLE_NAME)
        role_id == IF found = 0 THEN Len(roleRows) + 1 ELSE found
    IN /\ ABegin(t)
       /\ orgRows' = IF known = 0 THEN Append(orgRows, ROOT_ORGANIZATION_NAME) ELSE orgRows
       /\ roleRows' = IF found = 0
                      THEN Append(roleRows, [organization_id |-> root,
                                             role_name |-> SUPER_ADMIN_ROLE_NAME])
                      ELSE roleRows
       /\ rolePermissionRows' =
              InsertRows(rolePermissionRows,
                         {RolePermissionRow(role_id, p, root) :
                              p \in SuperAdminPermissions \ AssignedIn(role_id, root)})
       /\ userRows' = IF \E u \in StoredUserIds : userRows[u].role_id = role_id
                      THEN userRows
                      ELSE RegisteredUser(root, role_id)
       /\ AReturn(t, "superuser")
       /\ UNCHANGED <<rbacVars, sessVars, resetVars>>

\* POST /v1/roles/{role_id}/permissions by a principal of organization o, up
\* to the flush: the role must be one of o, the row must not be stored.
AssignPermissionToRole(t) ==
    \E o \in OrganizationIds, r \in NamedRoleIds, p \in PermissionIds :
        /\ ABegin(t)
        /\ IF r \notin StoredRoleIds \/ roleRows[r].organization_id # o
           THEN ARefused(t, "role_not_found")
           ELSE IF p \in AssignedIn(r, roleRows[r].organization_id)
           THEN ARefused(t, "role_permission_exists")
           ELSE /\ atx' = [atx EXCEPT ![t] =
                              RolePermissionRow(r, p, roleRows[r].organization_id)]
                /\ apc' = [apc EXCEPT ![t] = "insert"]
                /\ UNCHANGED <<ares, orgRows, roleRows, userRows, rolePermissionRows>>
        /\ UNCHANGED <<rbacVars, sessVars, resetVars>>

\* sa.PrimaryKeyConstraint("role_id", "permission_id", "organization_id"):
\* the table holds no row with this key.
PrimaryKeyFree(table, row) == row \notin DOMAIN table \/ table[row] = 0

\* The INSERT of assign_permission_to_role and the commit of its request; the
\* primary key refuses a row another request has inserted meanwhile.
InsertRolePermission(t) ==
    /\ apc[t] = "insert"
    /\ IF PrimaryKeyFree(rolePermissionRows, atx[t])
       THEN /\ rolePermissionRows' = InsertRows(rolePermissionRows, {atx[t]})
            /\ AReturn(t, "permission_assigned")
            /\ UNCHANGED <<orgRows, roleRows, userRows>>
       ELSE ARefused(t, "integrity_error")
    /\ UNCHANGED <<rbacVars, sessVars, resetVars, admins>>

NextAdmin ==
    \E t \in Tasks :
        \/ RegisterUser(t)
        \/ CreateUserInOrganization(t)
        \/ UpdateUser(t)
        \/ AssignRoleToUser(t)
        \/ CreateRole(t)
        \/ CreateOrgAdmin(t)
        \/ BootstrapOrganization(t)
        \/ CreateSuperuser(t)
        \/ AssignPermissionToRole(t)
        \/ InsertRolePermission(t)

SpecAdmin == Init /\ [][NextAdmin]_vars

\* ------------------------------------------------------------- provisioning
\* The request flows that provision tenants and users on a database without
\* organizations: POST /v1/bootstrap/organization and the two SSO callbacks,
\* next to the RBAC admin handlers and enforce.  The users, roles and role
\* permissions they insert are followed as the facts the service loads
\* (userRole, rolePermissions, storedRoles); the n-th organization gets the
\* n-th role and the n-th user of the model.
ProvisionKinds ==
    {"bootstrap_root", "bootstrap_org", "sso_callback", "google_sso_callback"}

\* What the transaction of such a request has flushed: the organization
\* `name` with its administrator role and user, or a user without role.
Provisioned(kind, id, name) ==
    [kind |-> kind, user |-> id, role |-> id, perm |-> 0, name |-> name]

\* organization_name is unique: an INSERT waits while another transaction
\* that inserted an organization is open.
OrganizationPending(t) ==
    \E u \in Tasks \ {t} :
        /\ txn[u] # NoTxn
        /\ txn[u].kind \in {"bootstrap_root", "bootstrap_org"}

\* bootstrap_organization up to its first await on the RBAC service.  Without
\* organizations: bootstrap_superuser flushes RootOrg, super_admin with its
\* permissions and the administrator, then reload_policies() is called (line
\* 43).  Otherwise: create_organization and register_user, 409 for a name
\* that exists, then invalidate_cache() (line 89).
StartBootstrap(t) ==
    \E name \in OrganizationNames :
        /\ Begin(t)
        /\ ~OrganizationPending(t)
        /\ IF Len(orgRows) = 0
           THEN /\ Running(t, "bootstrap", NoArg)
                /\ txn' = [txn EXCEPT ![t] =
                              Provisioned("bootstrap_root", 1, ROOT_ORGANIZATION_NAME)]
                /\ result' = [result EXCEPT ![t] = NoResult]
                /\ IF lock = "free"
                   THEN /\ lock' = t
                        /\ pc' = [pc EXCEPT ![t] = "scan"]
                        /\ mustReload' = FALSE
                   ELSE /\ pc' = [pc EXCEPT ![t] = "lockwait"]
                        /\ UNCHANGED <<lock, mustReload>>
           ELSE IF OrganizationNamed(name) # 0
           THEN /\ pc' = [pc EXCEPT ![t] = "idle"]
                /\ result' = [result EXCEPT ![t] = [val |-> "rejected"]]
                /\ UNCHANGED <<txn, op, arg, lock, mustReload>>
           ELSE /\ Running(t, "admin", NoArg)
                /\ txn' = [txn EXCEPT ![t] =
                              Provisioned("bootstrap_org", Len(orgRows) + 1, name)]
                /\ result' = [result EXCEPT ![t] = NoResult]
                /\ pc' = [pc EXCEPT ![t] = "invalidate"]
                /\ UNCHANGED <<lock, mustReload>>
        /\ UNCHANGED <<sessVars, adminVars, resetVars, dbVars, modelVars, policiesLoaded,
                       cache, localVars, preReload, loadedAllow>>

\* GET /v1/auth/sso/callback and POST /auth/sso/google/callback for a profile
\* that is new: get_or_create_user_from_sso inserts a user of organization o
\* without role (the foreign key refuses an organization that does not
\* exist).  google_sso_callback then calls invalidate_cache() (line 144);
\* sso_callback creates the session and returns.
StartSso(t) ==
    \E flow \in {"sso_callback", "google_sso_callback"}, o \in 1..(Len(orgRows) + 1) :
        /\ Begin(t)
        /\ IF o \notin OrganizationIds
           THEN /\ pc' = [pc EXCEPT ![t] = "idle"]
                /\ result' = [result EXCEPT ![t] = [val |-> "error"]]
                /\ UNCHANGED <<txn, op, arg>>
           ELSE /\ Running(t, "admin", NoArg)
                /\ txn' = [txn EXCEPT ![t] = Provisioned(flow, NoRole, "")]
                /\ result' = [result EXCEPT ![t] = NoResult]
                /\ pc' = [pc EXCEPT ![t] =
                             IF flow = "google_sso_callback" THEN "invalidate" ELSE "commit"]
        /\ UNCHANGED <<sessVars, adminVars, resetVars, dbVars, modelVars, policiesLoaded,
                       lock, cache, localVars, preReload, mustReload, loadedAllow>>

\* get_db_session after one of these handlers returned: await session.commit().
CommitProvision(t) ==
    /\ pc[t] = "commit"
    /\ txn[t].kind \in ProvisionKinds
    /\ LET m == txn[t]
           granted == IF m.kind = "bootstrap_root"
                      THEN SuperAdminPermissions ELSE AdminPermissions
       IN IF m.kind \in {"bootstrap_root", "bootstrap_org"}
          THEN /\ orgRows' = Append(orgRows, m.name)
               /\ storedRoles' = storedRoles \cup {m.role}
               /\ rolePermissions' =
                      rolePermissions \cup
                          {RolePermissionRow(m.role, p, RoleOrganization[m.role]) :
                               p \in granted}
               /\ userRole' = [userRole EXCEPT ![m.user] = m.role]
          ELSE UNCHANGED <<orgRows, storedRoles, rolePermissions, userRole>>
    /\ txn' = [txn EXCEPT ![t] = NoTxn]
    /\ Return(t, "ok")
    /\ UNCHANGED <<sessVars, roleRows, userRows, rolePermissionRows, admins, apc, atx,
                   ares, resetVars, heldDeleted, modelVars, policiesLoaded, lock, cache,
                   localVars, permsOut, calls, preReload, mustReload, loadedAllow, quiet>>

\* The service and a database whose tables are empty.
InitEmpty ==
    /\ InitOver([u \in UserIds |-> NoRole], {}, FALSE, {}, <<>>, <<>>, <<>>, <<>>)
    /\ Served(0)

NextProvision ==
    \E t \in Tasks :
        \/ StartBootstrap(t)
        \/ StartSso(t)
        \/ StartAdmin(t)
        \/ AdminInvalidate(t)
        \/ Commit(t)
        \/ CommitProvision(t)
        \/ StartEnforce(t)
        \/ CacheGet(t)
        \/ EvaluateDecision(t)
        \/ CacheSet(t)
        \/ AcquireLock(t)
        \/ ScanKeys(t)
        \/ DeleteScanned(t)
        \/ LoadPolicies(t)
        \/ LoadGroupings(t)
        \/ FinishReload(t)
        \/ Fail(t)

SpecProvision == InitEmpty /\ [][NextProvision]_vars

\* ---------------------------------------------------- expiry of decisions
\* Time as redis counts it: the clock runs over one DecisionTtl in MaxClock
\* ticks.
TickLength == DecisionTtl \div MaxClock

\* A tick passes: every key loses TickLength seconds of its time to live and
\* a key whose time is up is gone (GET returns nil).
Elapse ==
    /\ clock < MaxClock
    /\ clock' = clock + 1
    /\ cache' = [k \in {x \in DOMAIN cache : cache[x].ttl > TickLength} |->
                    [cache[k] EXCEPT !.ttl = @ - TickLength]]
    /\ UNCHANGED <<dbVars, txn, modelVars, policiesLoaded, lock, pc, op, arg, localVars,
                   result, permsOut, calls, preReload, mustReload, loadedAllow, quiet,
                   sessions, rowLock, issued, requests, spc, sreq, srow, sres,
                   userPassword, adminVars, resetVars>>

\* enforce, the administration of the facts and invalidate_cache with their
\* failures, while time passes.
NextExpiry ==
    \/ \E t \in Tasks :
        \/ StartEnforce(t)
        \/ CacheGet(t)
        \/ EvaluateDecision(t)
        \/ CacheSet(t)
        \/ AcquireLock(t)
        \/ ScanKeys(t)
        \/ DeleteScanned(t)
        \/ LoadPolicies(t)
        \/ LoadGroupings(t)
        \/ FinishReload(t)
        \/ StartInvalidate(t)
        \/ StartAdmin(t)
        \/ AdminInvalidate(t)
        \/ Commit(t)
        \/ Fail(t)
    \/ Elapse

SpecExpiry == Init /\ [][NextExpiry]_vars

\* ------------------------------------------- the two permission queries
\* What reload_policies loads from the tables: a policy per role permission
\* row joined with its role, a grouping per user with a role, in the
\* organization of the user row.
PoliciesOfTables ==
    {PolicyOf(row) : row \in {x \in DOMAIN rolePermissionRows :
                                 /\ rolePermissionRows[x] > 0
                                 /\ x.role_id \in StoredRoleIds}}

GroupingsOfTables ==
    {<<Str(u), Str(userRows[u].role_id), Str(userRows[u].organization_id)>> :
        u \in {x \in StoredUserIds : userRows[x].role_id # NoRole}}

\* RbacService.get_user_permissions on a loaded model: the roles of the user
\* in the domain, the policies of each, the permission names sorted.
get_user_permissions(pol, grp, user_id, organization_id) ==
    SortedNames({p[2] : p \in UNION {
        PermissionsForUserInDomain(pol, role, Str(organization_id)) :
            role \in RolesForUserInDomain(grp, Str(user_id), Str(organization_id))}})

\* RbacAdminService.get_effective_permissions: permissions JOIN
\* role_permissions JOIN roles JOIN users, filtered by the user id and by the
\* organization of the role and of the role permission row.
get_effective_permissions(user_id, organization_id) ==
    SortedNames({PermissionName[row.permission_id] :
        row \in {x \in DOMAIN rolePermissionRows :
                    /\ rolePermissionRows[x] > 0
                    /\ x.role_id \in StoredRoleIds
                    /\ user_id \in StoredUserIds
                    /\ userRows[user_id].role_id = x.role_id
                    /\ roleRows[x.role_id].organization_id = organization_id
                    /\ x.organization_id = organization_id}})

\* ----------------------------------------------------------- the bulk clear
\* _clear_cached_decisions over a keyspace of more than one batch, with
\* enforce calls writing meanwhile.  scan_iter walks the keyspace in several
\* SCAN calls: a key that is there from the start of the scan to its end is
\* returned, a key written meanwhile may be returned, a key that is gone is
\* not.  Every key is a page of its own here, so that other tasks run
\* between any two keys.

\* f"password_reset:rate:{id}", f"password_reset:user:{id}" and
\* f"password_reset:token:{token}" in the shape of the decision keys.
ResetKey(prefix, id) == <<prefix, Str(id), "", "", "">>

\* The password-reset keys redis holds.
PasswordResetKeys ==
    {ResetKey("password_reset:rate", u) : u \in {x \in ResetUsers : rateKey[x].n > 0}}
        \cup {ResetKey("password_reset:user", u) :
                  u \in {x \in ResetUsers : userKey[x] # NoToken}}
        \cup {ResetKey("password_reset:token", token) : token \in DOMAIN tokenKey}

Stored(v) == [val |-> v, old |-> FALSE, ttl |-> DecisionTtl, at |-> 0, due |-> {}]

\* The service after a completed reload and an enforce of every request of
\* EnforceInputs, and one forgot-password request: redis holds their keys.
InitClear ==
    /\ Served(1)
    /\ InitOver(InitialUserRole, InitialRolePermissions, TRUE, RoleIds,
                SeededOrganizations, SeededRoles, SeededRolePermissions,
                [k \in {CacheKey(a) : a \in EnforceInputs} \cup PasswordResetKeys |->
                    IF k \in PasswordResetKeys
                    THEN Stored("1")
                    ELSE Stored(EncodeDecision(Implied(
                             InitialUserRole, InitialRolePermissions,
                             CHOOSE a \in EnforceInputs : CacheKey(a) = k)))])

\* The first SCAN: the decision keys present now are the ones the scan is
\* bound to return (history: they are due to this clear).
BeginScan(t) ==
    /\ pc[t] = "scan"
    /\ cursor' = [cursor EXCEPT ![t] = ScanDecisionKeys(cache)]
    /\ cache' = [k \in DOMAIN cache |->
                    IF k[1] = DecisionPrefix
                    THEN [cache[k] EXCEPT !.due = @ \cup {t}]
                    ELSE cache[k]]
    /\ pc' = [pc EXCEPT ![t] = "iter"]
    /\ UNCHANGED <<sessVars, adminVars, resetVars, dbVars, txn, modelVars, policiesLoaded,
                   lock, op, arg, keys, decision, roles, permissions, result, permsOut,
                   calls, preReload, mustReload, loadedAllow, quiet>>

\* async for key in scan_iter(...): keys.append(key), lines 153-155; with
\* len(keys) >= BatchLimit the batch is deleted next.
ScanNext(t) ==
    /\ pc[t] = "iter"
    /\ \E k \in cursor[t] \cup ScanDecisionKeys(cache) :
          LET got == IF k \in DOMAIN cache THEN keys[t] \cup {k} ELSE keys[t]
          IN /\ cursor' = [cursor EXCEPT ![t] = @ \ {k}]
             /\ keys' = [keys EXCEPT ![t] = got]
             /\ pc' = [pc EXCEPT ![t] =
                          IF Cardinality(got) >= BatchLimit THEN "batch" ELSE "iter"]
    /\ UNCHANGED <<sessVars, adminVars, resetVars, dbVars, txn, modelVars, policiesLoaded,
                   lock, cache, op, arg, decision, roles, permissions, result, permsOut,
                   calls, preReload, mustReload, loadedAllow, quiet>>

\* await self._redis.delete(*keys); keys.clear(), lines 156-157.
DeleteBatch(t) ==
    /\ pc[t] = "batch"
    /\ cache' = DeleteKeys(cache, keys[t])
    /\ keys' = [keys EXCEPT ![t] = {}]
    /\ pc' = [pc EXCEPT ![t] = "iter"]
    /\ UNCHANGED <<sessVars, adminVars, resetVars, dbVars, txn, modelVars, policiesLoaded,
                   lock, op, arg, cursor, decision, roles, permissions, result, permsOut,
                   calls, preReload, mustReload, loadedAllow, quiet>>

\* The scan is exhausted: `if keys:` (line 158) decides on a last delete.
EndScan(t) ==
    /\ pc[t] = "iter"
    /\ cursor[t] = {}
    /\ IF keys[t] = {}
       THEN AfterClearCache(t, cache)
       ELSE /\ pc' = [pc EXCEPT ![t] = "delete"]
            /\ UNCHANGED <<result, mustReload, modelVars, preReload, cache,
                           decision, op, arg>>
    /\ UNCHANGED <<sessVars, adminVars, resetVars, dbVars, txn, policiesLoaded, lock, roles,
                   permissions, permsOut, calls, loadedAllow, quiet, keys, cursor>>

\* A step of the clear that task t runs.
ClearStep(t) ==
    BeginScan(t) \/ ScanNext(t) \/ DeleteBatch(t) \/ EndScan(t) \/ DeleteScanned(t)

NextClear ==
    \E t \in Tasks :
        \/ StartEnforce(t)
        \/ CacheGet(t)
        \/ EvaluateDecision(t)
        \/ CacheSet(t)
        \/ StartInvalidate(t)
        \/ BeginScan(t)
        \/ ScanNext(t)
        \/ DeleteBatch(t)
        \/ EndScan(t)
        \/ DeleteScanned(t)
        \/ AcquireLock(t)
        \/ LoadPolicies(t)
        \/ LoadGroupings(t)
        \/ FinishReload(t)
        \/ Fail(t)

SpecClear == InitClear /\ [][NextClear]_vars

\* redis answers every command and the event loop resumes the task that
\* waited for it.
SpecClearFair ==
    InitClear /\ [][NextClear]_vars /\ \A t \in Tasks : WF_vars(ClearStep(t))

\* ------------------------------------------------------------ password reset
\* AuthService.create_password_reset_token and AuthService.reset_password.
\* Every await on the cache is a step of its own; the request's flush and
\* commit are one step.  A token (secrets.token_urlsafe) is named by the
\* number of the request that generated it, so no two requests generate the
\* same one.

loginVars == <<sessions, rowLock, clock, issued, requests, spc, sreq, srow, sres>>

RedisDelete(keyspace, key) == [k \in (DOMAIN keyspace) \ {key} |-> keyspace[k]]

RedisSet(keyspace, key, value) ==
    [k \in (DOMAIN keyspace) \cup {key} |-> IF k = key THEN value ELSE keyspace[k]]

\* Variant of Declined that lets one more request through.
DeclinedFromSeventh(attempts) == attempts > RateLimit + 1

\* if attempts > 5: return None
Declined(attempts) == attempts > RateLimit

\* if token: await publish_email_event(...)
PublishesEmail(token) == token # NoToken

\* Variant of ForgotResponse that hands the token to the caller.
ForgotResponseWithToken(token) == [status |-> "ok", reset_token |-> token]

\* return ForgotPasswordResponse(status="ok", reset_token=None)
ForgotResponse(token) == [status |-> "ok", reset_token |-> NoToken]

\* What forgot_password leaves behind once the service has returned token.
ForgotReply(outcome, token) ==
    [op |-> "forgot", outcome |-> outcome, mail |-> PublishesEmail(token),
     response |-> ForgotResponse(token)]

\* What a direct call of the service, or reset_password, leaves behind.
ServiceReply(op_, outcome) ==
    [op |-> op_, outcome |-> outcome, mail |-> FALSE, response |-> NoResponse]

\* The calls started so far, of either operation.
resetCalls == <<minted, resets, consumes>>

RReturn(t, reply) ==
    /\ rpc' = [rpc EXCEPT ![t] = "idle"]
    /\ rloc' = [rloc EXCEPT ![t] = NoLocals]
    /\ rres' = reply

RGoto(t, where, locals) ==
    /\ rpc' = [rpc EXCEPT ![t] = where]
    /\ rloc' = [rloc EXCEPT ![t] = locals]
    /\ UNCHANGED rres

cacheKeys == <<rateKey, userKey, tokenKey>>
resetHistory == <<life, grants, latest, issuedTokens, consumed>>

\* POST /password/forgot (the cache is passed) or a call of the service
\* without a cache: the user is selected by email (u = 0: no account has
\* it) and the token is generated.
StartCreate(t) ==
    \E u \in ResetUsers \cup {0}, backed \in {"redis", "db"} :
        /\ rpc[t] = "idle"
        /\ resets < MaxResets
        /\ resets' = resets + 1
        /\ minted' = IF u = 0 THEN minted ELSE minted + 1
        /\ u = 0 => backed = "redis"
        /\ backed = "db" =>
               Cardinality(DOMAIN passwordResets)
                   + Cardinality({o \in Tasks : rpc[o] = "insert"}) < MaxRows
        /\ IF u = 0
           THEN RReturn(t, ForgotReply("no_account", NoToken))
           ELSE /\ rpc' = [rpc EXCEPT ![t] = IF backed = "redis" THEN "incr" ELSE "insert"]
                /\ rloc' = [rloc EXCEPT ![t] =
                               [NoLocals EXCEPT !.backed = backed, !.user = u,
                                                !.token = minted + 1]]
                /\ UNCHANGED rres
        /\ UNCHANGED <<rbacVars, sessVars, adminVars, cacheKeys, passwordResets,
                       consumes, resetHistory>>

\* Variant of IncrRate in which a declined call also drops the stored token.
IncrRateDroppingToken(t) ==
    /\ rpc[t] = "incr"
    /\ LET u == rloc[t].user
           attempts == rateKey[u].n + 1
           born == IF rateKey[u].n = 0 THEN life + 1 ELSE life
       IN /\ rateKey' = [rateKey EXCEPT ![u].n = attempts]
          /\ life' = born
          /\ IF attempts = 1
             THEN /\ RGoto(t, "expire", [rloc[t] EXCEPT !.attempts = attempts, !.life = born])
                  /\ UNCHANGED <<userKey, tokenKey>>
             ELSE IF Declined(attempts)
             THEN /\ RReturn(t, ForgotReply("rate_limited", NoToken))
                  /\ tokenKey' = RedisDelete(tokenKey, userKey[u])
                  /\ userKey' = [userKey EXCEPT ![u] = NoToken]
             ELSE /\ RGoto(t, "getprev", [rloc[t] EXCEPT !.attempts = attempts, !.life = born])
                  /\ UNCHANGED <<userKey, tokenKey>>
    /\ UNCHANGED <<rbacVars, sessVars, adminVars, passwordResets,
                   resetCalls, grants, latest, issuedTokens, consumed>>

\* attempts = await redis.incr(rate_key), and the rate limit when the
\* counter was not created by this call.
IncrRate(t) ==
    /\ rpc[t] = "incr"
    /\ LET u == rloc[t].user
           attempts == rateKey[u].n + 1
           born == IF rateKey[u].n = 0 THEN life + 1 ELSE life
       IN /\ rateKey' = [rateKey EXCEPT ![u].n = attempts]
          /\ life' = born
          /\ IF attempts = 1
             THEN RGoto(t, "expire", [rloc[t] EXCEPT !.attempts = attempts, !.life = born])
             ELSE IF Declined(attempts)
             THEN RReturn(t, ForgotReply("rate_limited", NoToken))
             ELSE RGoto(t, "getprev", [rloc[t] EXCEPT !.attempts = attempts, !.life = born])
    /\ UNCHANGED <<rbacVars, sessVars, adminVars, userKey, tokenKey, passwordResets,
                   resetCalls, grants, latest, issuedTokens, consumed>>

\* await redis.expire(rate_key, 3600), for the call that created the counter.
ExpireRate(t) ==
    /\ rpc[t] = "expire"
    /\ LET u == rloc[t].user
       IN rateKey' = [rateKey EXCEPT ![u].ttl = rateKey[u].n > 0]
    /\ IF Declined(rloc[t].attempts)
       THEN RReturn(t, ForgotReply("rate_limited", NoToken))
       ELSE RGoto(t, "getprev", rloc[t])
    /\ UNCHANGED <<rbacVars, sessVars, adminVars, userKey, tokenKey, passwordResets,
                   resetCalls, resetHistory>>

\* previous_token = await redis.get(user_key)
GetPrevious(t) ==
    /\ rpc[t] = "getprev"
    /\ LET previous == userKey[rloc[t].user]
       IN RGoto(t, IF previous # NoToken THEN "delprev" ELSE "store",
                [rloc[t] EXCEPT !.previous = previous])
    /\ UNCHANGED <<rbacVars, sessVars, adminVars, cacheKeys, passwordResets, resetCalls,
                   resetHistory>>

\* await redis.delete(f"password_reset:token:{token_value}")
DeletePrevious(t) ==
    /\ rpc[t] = "delprev"
    /\ tokenKey' = RedisDelete(tokenKey, rloc[t].previous)
    /\ RGoto(t, "store", rloc[t])
    /\ UNCHANGED <<rbacVars, sessVars, adminVars, rateKey, userKey, passwordResets,
                   resetCalls, resetHistory>>

\* The pipeline of the two setex, the return of the token and the email
\* event of forgot_password.
StoreToken(t) ==
    /\ rpc[t] = "store"
    /\ LET u == rloc[t].user
           token == rloc[t].token
       IN /\ tokenKey' = RedisSet(tokenKey, token, u)
          /\ userKey' = [userKey EXCEPT ![u] = token]
          /\ grants' = [grants EXCEPT ![rloc[t].life] = @ + 1]
          /\ latest' = [latest EXCEPT ![u] = token]
          /\ issuedTokens' = issuedTokens \cup {token}
          /\ RReturn(t, ForgotReply("issued", token))
    /\ UNCHANGED <<rbacVars, sessVars, adminVars, rateKey, passwordResets, resetCalls,
                   life, consumed>>

\* Without a cache: the PasswordReset row is added, flushed and committed.
InsertPasswordReset(t) ==
    /\ rpc[t] = "insert"
    /\ passwordResets' =
           RedisSet(passwordResets, rloc[t].token,
                    [user_id |-> rloc[t].user, token_used |-> FALSE, expired |-> FALSE])
    /\ RReturn(t, ServiceReply("create", "issued"))
    /\ UNCHANGED <<rbacVars, sessVars, adminVars, cacheKeys, resetCalls, resetHistory>>

\* The tokens a client can present: one it was sent, or a string nobody
\* issued.
Presentable == {NoToken} \cup issuedTokens \cup DOMAIN passwordResets

\* POST /password/reset, or reset_password without a cache: the token is
\* looked up (redis.get of its key, or the SELECT of its row).
StartReset(t) ==
    \E token \in Presentable, pw \in NewPasswords, backed \in {"redis", "db"} :
        /\ rpc[t] = "idle"
        /\ consumes < MaxConsumes
        /\ consumes' = consumes + 1
        /\ LET locals == [NoLocals EXCEPT !.backed = backed, !.token = token, !.pw = pw]
               refuse(why) == RReturn(t, ServiceReply("reset", why))
           IN IF backed = "redis"
              THEN IF token \notin DOMAIN tokenKey
                   THEN refuse("invalid_token")
                   ELSE /\ rpc' = [rpc EXCEPT ![t] = "consume"]
                        /\ rloc' = [rloc EXCEPT ![t] =
                                       [locals EXCEPT !.user = tokenKey[token]]]
                        /\ UNCHANGED rres
              ELSE IF token \notin DOMAIN passwordResets
                   THEN refuse("invalid_token")
                   ELSE IF passwordResets[token].token_used
                   THEN refuse("token_used")
                   ELSE IF passwordResets[token].expired
                   THEN refuse("token_expired")
                   ELSE /\ rpc' = [rpc EXCEPT ![t] = "write"]
                        /\ rloc' = [rloc EXCEPT ![t] =
                                       [locals EXCEPT !.user = passwordResets[token].user_id]]
                        /\ UNCHANGED rres
        /\ UNCHANGED <<rbacVars, sessVars, adminVars, cacheKeys, passwordResets,
                       minted, resets, resetHistory>>

\* The pipeline that deletes the token key and the user's current-token key.
ConsumeToken(t) ==
    /\ rpc[t] = "consume"
    /\ tokenKey' = RedisDelete(tokenKey, rloc[t].token)
    /\ userKey' = [userKey EXCEPT ![rloc[t].user] = NoToken]
    /\ RGoto(t, "write", rloc[t])
    /\ UNCHANGED <<rbacVars, sessVars, adminVars, rateKey, passwordResets, resetCalls,
                   resetHistory>>

\* user.password = hash_password(new_password), token_used = True without a
\* cache, the flush and the commit of the request.
WritePassword(t) ==
    /\ rpc[t] = "write"
    /\ userPassword' = [userPassword EXCEPT ![rloc[t].user] = hash_password(rloc[t].pw)]
    /\ passwordResets' =
           IF rloc[t].backed = "db"
           THEN [passwordResets EXCEPT ![rloc[t].token].token_used = TRUE]
           ELSE passwordResets
    /\ consumed' = [consumed EXCEPT ![rloc[t].token] = @ + 1]
    /\ RReturn(t, ServiceReply("reset", "password_reset"))
    /\ UNCHANGED <<rbacVars, loginVars, adminVars, cacheKeys, resetCalls, life, grants,
                   latest, issuedTokens>>

\* The hour of the rate counter is over: the cache drops the key.
RateKeyExpires ==
    \E u \in ResetUsers :
        /\ rateKey[u].n > 0
        /\ rateKey[u].ttl
        /\ life < MaxLives
        /\ rateKey' = [rateKey EXCEPT ![u] = NoRateKey]
        /\ UNCHANGED <<rbacVars, sessVars, adminVars, userKey, tokenKey, passwordResets,
                       resetCalls, rpc, rloc, rres, resetHistory>>

\* The minutes of a token are over: the cache drops its key and the
\* current-token key that was set with it.
TokenKeyExpires ==
    \E token \in DOMAIN tokenKey :
        /\ tokenKey' = RedisDelete(tokenKey, token)
        /\ userKey' = [u \in ResetUsers |->
                          IF userKey[u] = token THEN NoToken ELSE userKey[u]]
        /\ UNCHANGED <<rbacVars, sessVars, adminVars, rateKey, passwordResets,
                       resetCalls, rpc, rloc, rres, resetHistory>>

\* expires_at of a PasswordReset row has passed.
PasswordResetExpires ==
    \E token \in DOMAIN passwordResets :
        /\ ~passwordResets[token].expired
        /\ passwordResets' = [passwordResets EXCEPT ![token].expired = TRUE]
        /\ UNCHANGED <<rbacVars, sessVars, adminVars, cacheKeys, resetCalls, rpc, rloc,
                       rres, resetHistory>>

NextReset ==
    \/ \E t \in Tasks :
        \/ StartCreate(t)
        \/ IncrRate(t)
        \/ ExpireRate(t)
        \/ GetPrevious(t)
        \/ DeletePrevious(t)
        \/ StoreToken(t)
        \/ InsertPasswordReset(t)
        \/ StartReset(t)
        \/ ConsumeToken(t)
        \/ WritePassword(t)
    \/ RateKeyExpires
    \/ TokenKeyExpires
    \/ PasswordResetExpires

SpecReset == InitReset /\ [][NextReset]_vars

\* redis.expire raises (the connection is lost, or the request is cancelled
\* at this await) once the increment has been applied: the exception leaves
\* create_password_reset_token and the request fails.
ExpireFails(t) ==
    /\ rpc[t] = "expire"
    /\ RReturn(t, ServiceReply("forgot", "error"))
    /\ UNCHANGED <<rbacVars, sessVars, adminVars, cacheKeys, passwordResets, resetCalls,
                   resetHistory>>

NextResetFailing ==
    \/ NextReset
    \/ \E t \in Tasks : ExpireFails(t)

SpecResetFailing == InitReset /\ [][NextResetFailing]_vars

\* =============================================================== properties
\* Vocabulary shared by the properties below.

\* A step in which enforce hands a decision back to its caller.
EnforceReturns(t) ==
    /\ op[t] = "enforce"
    /\ pc[t] \in {"cget", "cset"}
    /\ pc'[t] = "idle"
    /\ result'[t].val \in {"true", "false"}

\* A step in which get_user_permissions hands its list back.
PermissionsReturns(t) ==
    /\ op[t] = "perms"
    /\ pc[t] \in {"roles", "perms"}
    /\ pc'[t] = "idle"
    /\ result'[t].val = "list"

\* A step in which a task reads the in-memory model through the engine.
ReadsModel(t) ==
    \/ pc[t] = "eval" /\ pc'[t] = "cset"
    \/ pc[t] = "roles" /\ pc'[t] \in {"perms", "idle"}
    \/ pc[t] = "perms" /\ (pc'[t] = "idle" \/ roles'[t] # roles[t])

\* A reload is between clear_policy() and the end of its second load.
InLoadPhase == \E u \in Tasks : pc[u] \in {"loadrp", "loadur"}

\* The model in memory is marked loaded, no reload is running and it holds
\* exactly the committed facts.
ModelCurrent ==
    /\ policiesLoaded
    /\ lock = "free"
    /\ policy = LoadRolePermissions(rolePermissions)
    /\ grouping = LoadUserRoles(userRole)

\* What the current model decides for the request a cache key was built from.
KeyDecision(k) == Evaluate(policy, grouping, k[2], k[4], k[3], k[5])

\* Some administrative mutation has committed a change.
FactsChanged ==
    <<userRole, rolePermissions>> # <<InitialUserRole, InitialRolePermissions>>

\* The user holds no role in the organization, or the role has no grant.
NoGrants(u, o) ==
    \/ userRole[u] = NoRole
    \/ UserOrganization[u] # o
    \/ ~\E row \in rolePermissions : row.role_id = userRole[u]

\* C2: while a reload runs, every enforce and get_user_permissions of another
\* task reads a complete model (the old or the new one): no read of the model
\* happens between clear_policy() and the end of the loads.
C2_ReadsSeeCompleteModel ==
    [][\A t \in Tasks : ReadsModel(t) => ~InLoadPhase]_vars

\* C3: once a reload has completed and the model is marked loaded, the cache
\* holds no decision computed from an earlier model (stated for the entries
\* an observer can tell apart: those that contradict the model now loaded).
C3_NoDecisionOfEarlierModel ==
    ModelCurrent =>
        \A k \in DOMAIN cache :
            cache[k].old => (CachedDecision(cache[k].val) <=> KeyDecision(k))

\* C4: after an administrative mutation has completed, an enforce that starts
\* afterwards (here: one that runs with no other request at all) returns the
\* decision the committed facts imply.
C4_DecisionFollowsCompletedMutation ==
    [][\A t \in Tasks :
          (EnforceReturns(t) /\ quiet[t] /\ FactsChanged)
              => result'[t].val = BoolStr(Implied(userRole, rolePermissions, arg[t]))]_vars

\* C5: after invalidate_cache has returned, the next enforce or
\* get_user_permissions performs a full reload: it takes the lock or queues
\* for it, whatever reload was running during the invalidation.
C5_InvalidationForcesReload ==
    [][\A t \in Tasks :
          (pc[t] = "idle" /\ op'[t] \in {"enforce", "perms"} /\ mustReload)
              => pc'[t] \in {"scan", "lockwait"}]_vars

\* C6: a reload_policies that fails on the fact store leaves the in-memory
\* model equal to the model it found.
C6_FailedReloadKeepsModel ==
    [][\A t \in Tasks :
          (lock = t /\ preReload.live /\ pc'[t] = "idle"
                    /\ result'[t].val = "error")
              => (policy' = preReload.policy /\ grouping' = preReload.grouping)]_vars

\* Rows the RolePermission table can ever hold in these behaviours.
PossibleRows ==
    InitialRolePermissions
        \cup {RowOf(m) : m \in {n \in Mutations : n.kind = "assign_permission"}}

\* C7: enforce never fails open: it returns true only for a request that some
\* completed load of committed facts allowed (a grouping of the user with a
\* role in the organization and a grant of that role there); a failure of
\* redis or of the fact store never turns into true.
C7_EnforceNeverFailsOpen ==
    [][\A t \in Tasks :
          (EnforceReturns(t) /\ result'[t].val = "true")
              => arg[t] \in loadedAllow]_vars

\* C7 happens: one request got true after another one failed on I/O.
C7_Witness ==
    \E t, u \in Tasks :
        /\ pc[t] = "idle" /\ result[t].val = "true"
        /\ pc[u] = "idle" /\ result[u].val = "error"

\* C8: tenant isolation: enforce returns true for (u, p, o) only if the user
\* belongs to organization o and a grant of p was recorded with organization
\* o; a decision cached for another organization is never returned.
C8_TenantIsolation ==
    [][\A t \in Tasks :
          (EnforceReturns(t) /\ result'[t].val = "true")
              => /\ UserOrganization[arg[t].user] = arg[t].org
                 /\ \E row \in PossibleRows :
                        /\ row.organization_id = arg[t].org
                        /\ PermissionName[row.permission_id] = arg[t].perm]_vars

\* C8 happens: a lookup for a foreign organization missed the cache while the
\* positive decision of the same user in its own organization is cached.
C8_Witness ==
    \E t \in Tasks :
        /\ op[t] = "enforce" /\ pc[t] = "eval"
        /\ arg[t].org # UserOrganization[arg[t].user]
        /\ LET home == [arg[t] EXCEPT !.org = UserOrganization[arg[t].user]]
           IN /\ CacheKey(home) \in DOMAIN cache
              /\ cache[CacheKey(home)].val = "1"

\* C9: with the model a completed reload left equal to the committed facts,
\* enforce(u, p, o, "access") returns true exactly when u belongs to o, holds
\* a role and a RolePermission row (role, p, o) exists.
C9_DecisionIsFactStoreJoin ==
    [][\A t \in Tasks :
          (EnforceReturns(t) /\ quiet[t] /\ ModelCurrent)
              => result'[t].val = BoolStr(Implied(userRole, rolePermissions, arg[t]))]_vars

\* C10: a user without a role in the organization, or whose role has no
\* grant, gets false from enforce and the empty list from
\* get_user_permissions.
C10_NoGrantsMeansDenied ==
    [][\A t \in Tasks :
          /\ (EnforceReturns(t) /\ quiet[t] /\ NoGrants(arg[t].user, arg[t].org))
                => result'[t].val = "false"
          /\ (PermissionsReturns(t) /\ quiet[t] /\ NoGrants(arg[t].user, arg[t].org))
                => permsOut'[t] = <<>>]_vars

\* C1: of two concurrent refreshes that present the same valid refresh token
\* for the same session, only one succeeds.
C1_OneRefreshWins ==
    \A t, u \in Tasks :
        (t # u /\ sres[t].status = "refreshed" /\ sres[u].status = "refreshed"
               /\ sres[t].sid = sres[u].sid)
            => sres[t].presented # sres[u].presented

\* C11: with a cache configured, a sequence of enforce calls on one key
\* evaluates once: the call that evaluates stores its decision under the key
\* with a positive TTL, a call that finds the key returns the stored boolean
\* without evaluating, and after invalidate_cache no decision is left, so
\* that the next call evaluates again.
C11_OneEvaluationPerKey ==
    [][\A t \in Tasks :
          LET key == CacheKey(arg[t])
          IN /\ (op[t] = "enforce" /\ pc[t] = "cset" /\ pc'[t] = "idle"
                    /\ result'[t].val # "error")
                   => /\ key \in DOMAIN cache'
                      /\ cache'[key].val = EncodeDecision(result'[t].val = "true")
                      /\ cache'[key].ttl > 0
             /\ (op[t] = "enforce" /\ pc[t] = "cget" /\ pc'[t] # "cget"
                    /\ key \in DOMAIN cache)
                   => /\ pc'[t] = "idle"
                      /\ \/ result'[t].val = "error"
                         \/ cache[key].val = EncodeDecision(result'[t].val = "true")
             /\ (op[t] = "enforce" /\ pc[t] = "cget" /\ pc'[t] # "cget"
                    /\ key \notin DOMAIN cache)
                   => (pc'[t] = "eval" \/ result'[t].val = "error")
             /\ (op[t] = "invalidate" /\ quiet[t] /\ pc'[t] = "idle"
                    /\ result'[t].val = "ok")
                   => DOMAIN cache' = {}]_vars

\* C11 happens: a call running alone finds the decision an earlier call
\* stored, with the policies loaded.
C11_Witness ==
    \E t \in Tasks :
        /\ op[t] = "enforce" /\ pc[t] = "cget" /\ quiet[t]
        /\ policiesLoaded
        /\ CacheKey(arg[t]) \in DOMAIN cache
        /\ ~cache[CacheKey(arg[t])].old

\* C12: within one reload_policies the lock holder clears the cached
\* decisions, then clears and repopulates the model, then sets the flag: the
\* model changes only in the hands of the lock holder, it is cleared only
\* once the keys the holder found are gone from the cache, and the flag
\* becomes true only when both loads are done.
C12_ReloadOrder ==
    [][/\ modelVars' # modelVars
            => \E t \in Tasks :
                  /\ lock = t
                  /\ pc[t] \in {"scan", "delete", "loadrp", "loadur"}
                  /\ pc'[t] \in {"loadrp", "loadur", "finish"}
       /\ \A t \in Tasks :
             (pc'[t] = "loadrp" /\ pc[t] # "loadrp")
                => /\ lock = t /\ lock' = t
                   /\ pc[t] \in {"scan", "delete"}
                   /\ keys[t] \cap DOMAIN cache' = {}
                   /\ pc[t] = "scan" => ScanDecisionKeys(cache') = {}
                   /\ policy' = {} /\ grouping' = {}
       /\ (policiesLoaded' /\ ~policiesLoaded)
            => \E t \in Tasks :
                  /\ lock = t /\ lock' = "free"
                  /\ pc[t] = "finish"
                  /\ preReload.live]_vars

\* C12 happens: a reload that replaced a loaded model has repopulated the
\* model and is about to set the flag.
C12_Witness ==
    \E t \in Tasks :
        /\ lock = t /\ pc[t] = "finish"
        /\ preReload.live /\ preReload.policy # {}
        /\ ~policiesLoaded
        /\ policy # {} /\ grouping # {}

\* A task is inside the body of reload_policies.
InReloadBody(t) ==
    /\ op[t] \in {"enforce", "perms", "reload"}
    /\ pc[t] \in {"scan", "delete", "loadrp", "loadur", "finish"}

\* C13: at most one reload_policies body runs at any time, whoever the
\* callers are: a task inside the body holds the lock.
C13_OneReloadAtATime ==
    /\ \A t \in Tasks : InReloadBody(t) => lock = t
    /\ \A t, u \in Tasks : (InReloadBody(t) /\ InReloadBody(u)) => t = u

\* C13 happens: one task is inside the body while another caller waits for
\* the lock.
C13_Witness ==
    \E t, u \in Tasks :
        /\ InReloadBody(t) /\ pc[t] \in {"loadrp", "loadur"}
        /\ pc[u] = "lockwait"

\* C14: refresh tokens are single-use: a refresh succeeds only with the token
\* the session accepts at that moment, so a token that a successful refresh
\* has already used is refused; the refresh keeps the session's id and user,
\* moves the expiry forward and stamps last_refreshed_at.
C14_RefreshTokenSingleUse ==
    [][\A t \in Tasks :
          (spc[t] = "commit" /\ sres'[t].status = "refreshed")
              => LET sid == sreq[t].sid
                 IN /\ verify_password(sreq[t].token, sessions[sid].hash)
                    /\ Len(sessions') = Len(sessions)
                    /\ sessions'[sid].user_id = sessions[sid].user_id
                    /\ sessions'[sid].expires >= sessions[sid].expires
                    /\ sessions'[sid].last_refreshed_at # Null]_vars

\* C15: refresh_session on an existing session fails with session_revoked
\* whenever revoked_at is set, otherwise with refresh_expired whenever the
\* expiry is in the past, otherwise with invalid_refresh_token when the token
\* does not match the stored hash; a refused refresh changes no session row
\* and issues no token.
C15_RefreshErrorPrecedence ==
    [][\A t \in Tasks :
          (spc[t] = "get" /\ spc'[t] # "get" /\ sres'[t].status # "error"
                /\ sreq[t].sid \in SessionIds)
              => LET row == sessions[sreq[t].sid]
                     refused == spc'[t] = "idle"
                 IN /\ row.revoked_at # Null
                         => sres'[t].status = "session_revoked"
                    /\ (row.revoked_at = Null /\ row.expires < clock)
                         => sres'[t].status = "refresh_expired"
                    /\ (row.revoked_at = Null /\ row.expires >= clock
                            /\ row.hash # hash_password(sreq[t].token))
                         => sres'[t].status = "invalid_refresh_token"
                    /\ (row.revoked_at = Null /\ row.expires >= clock
                            /\ row.hash = hash_password(sreq[t].token))
                         => ~refused
                    /\ refused
                         => /\ sessions' = sessions
                            /\ issued' = issued
                            /\ sres'[t].token = 0]_vars

\* C15 happens: a refresh that presented an issued token was refused with
\* session_revoked on a session that is revoked and expired as well.
C15_Witness ==
    \E t \in Tasks :
        /\ spc[t] = "idle"
        /\ sres[t].status = "session_revoked" /\ sres[t].presented # 0
        /\ sessions[sres[t].sid].revoked_at # Null
        /\ sessions[sres[t].sid].expires < clock

\* C16: once revoked_at of a session is set it stays set, no refresh of the
\* session succeeds any more, also not one that was in flight when the
\* revocation was committed, and every bearer resolution that reads the
\* session is rejected.
C16_RevokedIsTerminal ==
    [][\A t \in Tasks :
          LET sid == sreq[t].sid
              revoked == sid \in SessionIds /\ sessions[sid].revoked_at # Null
          IN /\ \A s \in SessionIds :
                    sessions[s].revoked_at # Null => sessions'[s].revoked_at # Null
             /\ (revoked /\ spc[t] = "commit" /\ spc'[t] = "idle")
                    => sres'[t].status # "refreshed"
             /\ (revoked /\ spc[t] = "session" /\ spc'[t] # "session")
                    => spc'[t] = "idle"]_vars

\* C17: a revoke_session that is committed on a session that is already
\* revoked leaves the number of sessions, the user id, the refresh token hash
\* and the refresh expiry as they were and leaves the session revoked, with a
\* revoked_at that is not earlier than the one it replaces; a bearer
\* resolution that reads a revoked session is rejected with session_revoked.
C17_RevokeIsIdempotent ==
    [][\A t \in Tasks :
          LET sid == sreq[t].sid
          IN /\ (spc[t] = "commit" /\ sres'[t].status = "revoked"
                    /\ sessions[sid].revoked_at # Null)
                   => /\ Len(sessions') = Len(sessions)
                      /\ sessions'[sid].user_id = sessions[sid].user_id
                      /\ sessions'[sid].hash = sessions[sid].hash
                      /\ sessions'[sid].expires = sessions[sid].expires
                      /\ sessions'[sid].revoked_at # Null
                      /\ sessions'[sid].revoked_at >= sessions[sid].revoked_at
             /\ (spc[t] = "session" /\ spc'[t] = "idle"
                    /\ sres'[t].status # "error"
                    /\ sid \in SessionIds
                    /\ sessions[sid].user_id = sreq[t].sub
                    /\ sessions[sid].revoked_at # Null)
                   => sres'[t].status = "session_revoked"]_vars

\* C18: once the refresh expiry of a session is earlier than the current
\* time no step changes that expiry any more, a refresh_session that reads
\* the session is refused with refresh_expired or session_revoked, and a
\* bearer resolution that reads it is rejected.
C18_ExpiredIsTerminal ==
    [][/\ \A s \in SessionIds :
              sessions[s].expires < clock
                  => sessions'[s].expires = sessions[s].expires
       /\ \A t \in Tasks :
              LET sid == sreq[t].sid
                  lapsed == sid \in SessionIds /\ sessions[sid].expires < clock
              IN /\ (lapsed /\ spc[t] = "get" /\ spc'[t] # "get"
                        /\ sres'[t].status # "error")
                       => sres'[t].status \in {"refresh_expired", "session_revoked"}
                 /\ (lapsed /\ spc[t] = "session" /\ spc'[t] # "session")
                       => spc'[t] = "idle"]_vars

\* The token of a request verifies, carries a subject and a session id, and
\* the committed session of that id belongs to the subject, is not revoked
\* and has not lapsed.
Resolvable(req) ==
    /\ req.valid /\ req.sub # 0 /\ req.sid # 0
    /\ req.sid \in SessionIds
    /\ sessions[req.sid].user_id = req.sub
    /\ sessions[req.sid].revoked_at = Null
    /\ sessions[req.sid].expires >= clock

\* C19: a bearer resolution goes on to the user lookup exactly when the state
\* it reads has a verified token with subject and session id and a session of
\* that id that belongs to the subject, is not revoked and has not lapsed,
\* and is rejected without a principal otherwise; a principal is returned
\* only after that, only for an existing user, and it carries the user id
\* and session id of the token and the organization id and role id of the
\* user record as it is when the user is read.
C19_PrincipalOnlyForLiveSession ==
    [][\A t \in Tasks :
          /\ (spc[t] = "session" /\ spc'[t] # "session" /\ sres'[t].status # "error")
                => /\ Resolvable(sreq[t]) <=> spc'[t] = "user"
                   /\ ~Resolvable(sreq[t])
                         => /\ spc'[t] = "idle"
                            /\ sres'[t].status \in {"invalid_token", "invalid_token_payload",
                                                    "session_not_found", "session_revoked",
                                                    "session_expired"}
                            /\ sres'[t].principal = NoPrincipal
          /\ (spc'[t] = "user" /\ spc[t] # "user") => spc[t] = "session"
          /\ (sres'[t].status = "principal" /\ sres[t].status # "principal")
                => /\ spc[t] = "user"
                   /\ sreq[t].sub \in UserIds
                   /\ sres'[t].principal.user_id = sreq[t].sub
                   /\ sres'[t].principal.session_id = sreq[t].sid
                   /\ sres'[t].principal.organization_id = UserOrganization[sreq[t].sub]
                   /\ sres'[t].principal.role_id = userRole[sreq[t].sub]
          /\ sres'[t].status # "principal" => sres'[t].principal = NoPrincipal]_vars

\* C19 happens: a resolution returned the principal of a session that is
\* still live, while a token of another subject for the same session was
\* rejected.
C19_Witness ==
    \E t, u \in Tasks :
        /\ sres[t].status = "principal"
        /\ sres[t].principal.user_id = sessions[sres[t].sid].user_id
        /\ sres[t].principal.organization_id = UserOrganization[sres[t].principal.user_id]
        /\ sessions[sres[t].sid].revoked_at = Null
        /\ sres[u].status = "session_not_found" /\ sres[u].sid = sres[t].sid

\* C20: no step of login, refresh, logout or password reset removes a
\* session row or changes the user a row belongs to: every session id that
\* exists still exists after the step, with the same user id.
C20_SessionsNeverDeleted ==
    [][/\ Len(sessions') >= Len(sessions)
       /\ \A sid \in SessionIds :
              sessions'[sid].user_id = sessions[sid].user_id]_vars

\* C20 happens: the password of a user was reset while a session of that
\* user, already revoked and past its expiry, is still stored.
C20_Witness ==
    \E sid \in SessionIds, t \in Tasks :
        /\ sres[t].status = "password_reset"
        /\ userPassword[sessions[sid].user_id] # hash_password(InitialPassword)
        /\ sessions[sid].revoked_at # Null
        /\ sessions[sid].expires < clock

\* C21: in every state of the tables, a user with a role holds a role of the
\* user's own organization.
C21_UserRoleInOwnOrganization ==
    \A u \in StoredUserIds :
        userRows[u].role_id # NoRole
            => /\ userRows[u].role_id \in StoredRoleIds
               /\ roleRows[userRows[u].role_id].organization_id
                      = userRows[u].organization_id

\* C22: in every state of the tables, a role permission row carries the
\* organization of the role it references, and no row is stored twice.
C22_RolePermissionInRoleOrganization ==
    \A row \in DOMAIN rolePermissionRows :
        rolePermissionRows[row] > 0
            => /\ rolePermissionRows[row] = 1
               /\ row.role_id \in StoredRoleIds
               /\ roleRows[row.role_id].organization_id = row.organization_id

\* The role row, every grant of the role and every user's reference to it
\* are gone from the committed facts.
RoleGone(r, stored, roleOf, rows) ==
    /\ r \notin stored
    /\ \A u \in DOMAIN roleOf : roleOf[u] # r
    /\ \A row \in rows : row.role_id # r

\* The call decides on the reloaded model: it ran alone from its start, or
\* its cache lookup is answered now, after the reload, with every other task
\* idle.
DecidesAfterReload(t) ==
    /\ ModelCurrent
    /\ \/ quiet[t]
       \/ pc[t] = "cget" /\ \A u \in Tasks \ {t} : pc[u] = "idle"

\* C23: after delete_role(r) has completed, no user has role_id = r, no
\* RolePermission row references r and the role row is gone; once the model
\* has been reloaded from those facts, enforce returns false and
\* get_user_permissions returns the empty list for every user that held r
\* and holds no other role.
C23_DeletedRoleGrantsNothing ==
    [][/\ \A t \in Tasks :
              (txn[t] # NoTxn /\ txn[t].kind = "delete_role" /\ txn'[t] = NoTxn
                    /\ storedRoles' # storedRoles)
                  => RoleGone(txn[t].role, storedRoles', userRole', rolePermissions')
       /\ \A r \in RoleIds \ storedRoles :
              RoleGone(r, storedRoles, userRole, rolePermissions)
       /\ \A t \in Tasks :
              /\ (EnforceReturns(t) /\ DecidesAfterReload(t)
                     /\ arg[t].user \in heldDeleted
                     /\ userRole[arg[t].user] = NoRole)
                    => result'[t].val = "false"
              /\ (PermissionsReturns(t) /\ quiet[t] /\ ModelCurrent
                     /\ arg[t].user \in heldDeleted
                     /\ userRole[arg[t].user] = NoRole)
                    => permsOut'[t] = <<>>]_vars

\* A create_password_reset_token call that has passed the rate limit and is
\* on its way to return a token.
PastRateLimit(t) == rpc[t] \in {"getprev", "delprev", "store"}

\* C24: with the cache, of the create_password_reset_token calls that count
\* on one rate counter (the hour from the first request) at most 5 return a
\* token, and a call that is the 6th or later on the counter returns none,
\* whatever the interleaving.
C24_AtMostFiveTokensPerCounter ==
    /\ \A l \in 1..MaxLives : grants[l] <= RateLimit
    /\ \A t \in Tasks : PastRateLimit(t) => rloc[t].attempts <= RateLimit

\* Five tokens were returned on a counter and a later call was declined.
C24_Witness ==
    /\ rres.outcome = "rate_limited"
    /\ \E l \in 1..MaxLives : grants[l] = RateLimit

\* The token keys of the cache that map to user u.
TokenKeysOf(u) == {token \in DOMAIN tokenKey : tokenKey[token] = u}

\* C25: with the cache, once a new token has been issued for a user every
\* token issued before it is unusable; at most one token key maps to the
\* user, and it is the token stored under the user's current-token key.
C25_OnlyLatestTokenUsable ==
    \A u \in ResetUsers :
        /\ \A token \in TokenKeysOf(u) : token = latest[u]
        /\ Cardinality(TokenKeysOf(u)) <= 1
        /\ \A token \in TokenKeysOf(u) : userKey[u] = token

\* C26: a reset token is consumed at most once: of all the reset_password
\* calls that present it, with or without the cache, at most one succeeds
\* and sets the password.
C26_TokenConsumedAtMostOnce ==
    \A token \in Tokens : consumed[token] <= 1

DeclinedStep(t) ==
    /\ rpc[t] \in {"incr", "expire"}
    /\ rpc'[t] = "idle"
    /\ rres'.outcome = "rate_limited"

\* The step of a forgot-password request for an email no account has.
NoAccountStep ==
    /\ resets' = resets + 1
    /\ rpc' = rpc
    /\ rres'.outcome = "no_account"

\* The step in which a create_password_reset_token call begins.
CreateBegins(t) == rpc[t] = "idle" /\ rpc'[t] \in {"incr", "insert"}

\* C28: a create_password_reset_token call that the rate limit declines
\* changes nothing but the rate counter: the user's latest token stays
\* stored and usable and no token key is created or deleted; a call for an
\* email that matches no account changes no cache state.
C28_DeclinedCallKeepsTokens ==
    [][/\ \A t \in Tasks :
              /\ CreateBegins(t) => UNCHANGED <<cacheKeys, passwordResets, userPassword>>
              /\ DeclinedStep(t) =>
                     /\ UNCHANGED <<userKey, tokenKey, passwordResets, userPassword>>
                     /\ rateKey'[rloc[t].user].n >= rateKey[rloc[t].user].n
       /\ NoAccountStep => UNCHANGED <<cacheKeys, passwordResets, userPassword>>]_vars

\* A call was declined while a token is stored for the account and usable.
C28_Witness ==
    /\ rres.outcome = "rate_limited"
    /\ \E u \in ResetUsers :
           /\ userKey[u] # NoToken
           /\ userKey[u] \in DOMAIN tokenKey
           /\ rateKey[u].n > RateLimit

\* The permission names in ascending lexicographic order.
Lexicographic == <<"doc.read", "doc.write">>

NameBefore(a, b) ==
    \E i, j \in DOMAIN Lexicographic :
        Lexicographic[i] = a /\ Lexicographic[j] = b /\ i < j

\* What the model in memory decides for request a.
ModelDecides(a) ==
    Evaluate(policy, grouping, Str(a.user), a.perm, Str(a.org), a.act)

AccessRequest(u, p, o) == [user |-> u, perm |-> p, org |-> o, act |-> DefaultAction]

\* get_user_permissions returns on a loaded model.
ListOfLoadedModel(t) ==
    /\ PermissionsReturns(t)
    /\ policiesLoaded
    /\ lock = "free"

\* C29: on a loaded model get_user_permissions(u, o) returns a list without
\* duplicates in ascending lexicographic order; p is in the list exactly
\* when the model decides enforce(u, p, o, "access") as true, which is what
\* enforce returns on that model; so two calls on the same model return the
\* same list.
C29_PermissionsAgreeWithEnforce ==
    [][\A t \in Tasks :
          /\ ListOfLoadedModel(t) =>
                 LET list == permsOut'[t]
                     u == arg[t].user
                     o == arg[t].org
                 IN /\ \A i, j \in DOMAIN list : i < j => NameBefore(list[i], list[j])
                    /\ \A p \in PermissionNames :
                           (\E i \in DOMAIN list : list[i] = p)
                               <=> ModelDecides(AccessRequest(u, p, o))
          /\ (EnforceReturns(t) /\ policiesLoaded /\ lock = "free")
                 => result'[t].val = BoolStr(ModelDecides(arg[t]))]_vars

\* get_user_permissions has returned a list of two permissions.
C29_Witness ==
    \E t \in Tasks :
        /\ pc[t] = "idle"
        /\ result[t].val = "list"
        /\ Len(permsOut[t]) = 2

\* The reload that enforce or get_user_permissions started through
\* ensure_policies_loaded fails in this step on a query of the fact store.
EnsuredReloadFails(t) ==
    /\ lock = t
    /\ op[t] \in {"enforce", "perms"}
    /\ pc[t] \in {"loadrp", "loadur"}
    /\ pc'[t] = "idle"
    /\ result'[t].val = "error"

\* C30: when a reload triggered by ensure_policies_loaded fails, the loaded
\* flag is false and the reload lock is free afterwards, so that the next
\* enforce or get_user_permissions attempts a reload again.
C30_FailedReloadIsRetried ==
    [][\A t \in Tasks :
          EnsuredReloadFails(t) => (~policiesLoaded' /\ lock' = "free")]_vars

\* The committed facts are those the bootstrap of the root organization wrote:
\* RootOrg alone, super_admin with its permissions, the administrator.
RootProvisioned ==
    /\ orgRows = <<ROOT_ORGANIZATION_NAME>>
    /\ userRole[1] = 1
    /\ rolePermissions =
           {RolePermissionRow(1, p, 1) : p \in SuperAdminPermissions}

\* C31: after the bootstrap_organization request that provisions the root
\* organization, super_admin and the first administrator has completed, an
\* enforce for the administrator in the root organization (here: one that
\* runs with no other request at all) returns true for every permission
\* granted to super_admin.
C31_BootstrapAdminIsGranted ==
    [][\A t \in Tasks :
          (/\ EnforceReturns(t)
           /\ quiet[t]
           /\ RootProvisioned
           /\ arg[t].user = 1
           /\ arg[t].org = 1
           /\ Implied(userRole, rolePermissions, arg[t]))
              => result'[t].val = "true"]_vars

\* C32: every request flow that changes users, roles or role permissions calls
\* invalidate_cache (or reload_policies) after its mutation and never skips
\* it: a request that has written reaches the commit of its transaction only
\* from the end of invalidate_cache's clear or of reload_policies.
C32_EveryFlowInvalidates ==
    [][\A t \in Tasks :
          (txn'[t] # NoTxn /\ pc[t] # "commit" /\ pc'[t] = "commit")
              => pc[t] \in {"scan", "delete", "finish"}]_vars

\* C33: of several enforce / get_user_permissions calls that start while the
\* policies are not loaded one loads the fact store, and the others, once the
\* flag is set, do not reload again; a call that finds the flag set goes on
\* to its lookup without clearing the cache or reading the fact store.
C33_ConcurrentCallersLoadOnce ==
    [][\A t \in Tasks :
          /\ (pc[t] = "lockwait" /\ op[t] \in {"enforce", "perms"} /\ policiesLoaded)
                 => pc'[t] # "scan"
          /\ (pc[t] = "idle" /\ op'[t] \in {"enforce", "perms"} /\ policiesLoaded)
                 => pc'[t] \in {"cget", "roles"}]_vars

\* Seconds since the decision under key k was written.
AgeOf(c, k, now) == (now - c[k].at) * TickLength

\* C34: every cached decision is written with a time to live of DecisionTtl
\* seconds that nothing extends, and an enforce that answers from the cache
\* leaves the cache as it is and returns a value written less than one
\* DecisionTtl ago; so a decision cached before an invalidation that crashed
\* or was lost is served for at most one DecisionTtl.
C34_CachedDecisionsExpire ==
    [][/\ \A k \in DOMAIN cache' :
             /\ cache'[k].ttl > 0
             /\ cache'[k].ttl = DecisionTtl - AgeOf(cache', k, clock')
       /\ \A t \in Tasks :
             (pc[t] = "cget" /\ EnforceReturns(t))
                 => /\ CacheKey(arg[t]) \in DOMAIN cache
                    /\ AgeOf(cache, CacheKey(arg[t]), clock) < DecisionTtl
                    /\ cache' = cache]_vars

\* An invalidation has crashed between setting the flag and clearing the
\* cache, and a decision written a tick or more ago is still cached.
C34_Witness ==
    /\ ~policiesLoaded
    /\ \E t \in Tasks : result[t].val = "error"
    /\ \E k \in DOMAIN cache : cache[k].at < clock

\* The places of _clear_cached_decisions.
ClearPoints == {"scan", "iter", "batch", "delete"}

\* Task t's clear returns to its caller with this step (and does not raise).
ClearCompletes(t) ==
    /\ pc[t] \in {"iter", "delete"}
    /\ \/ pc'[t] = "loadrp"
       \/ pc'[t] = "idle" /\ result'[t].val = "ok"

\* C35: the bulk clear terminates, also while enforce calls write; each of
\* its deletes names at least one and at most BatchLimit keys; no step of
\* any task removes a password-reset key; when it completes, no decision key
\* that existed when it started is left, and when no other request ran since
\* its caller began, no decision key is left at all.
C35_BulkClearTerminatesAndClears ==
    /\ \A t \in Tasks : (pc[t] \in ClearPoints) ~> (pc[t] \notin ClearPoints)
    /\ [][/\ PasswordResetKeys # {}
          /\ PasswordResetKeys \subseteq DOMAIN cache'
          /\ \A t \in Tasks :
                /\ (pc[t] \in {"batch", "delete"})
                       => /\ keys[t] # {}
                          /\ Cardinality(keys[t]) <= BatchLimit
                          /\ \A k \in keys[t] : k[1] = DecisionPrefix
                /\ ClearCompletes(t)
                       => /\ \A k \in DOMAIN cache' : t \notin cache'[k].due
                          /\ quiet[t] => ScanDecisionKeys(cache') = {}]_vars

\* A clear has deleted a full batch and is still scanning while an enforce
\* call is about to write its decision, and the password-reset keys are there.
C35_Witness ==
    /\ PasswordResetKeys # {}
    /\ \E t \in Tasks :
          /\ pc[t] = "iter"
          /\ keys[t] = {}
          /\ cursor[t] # {}
          /\ \E a \in EnforceInputs : CacheKey(a) \notin DOMAIN cache
          /\ \E u \in Tasks \ {t} : pc[u] = "cset"

\* C36: in every state of the tables, for every user and organization,
\* get_user_permissions on a model reloaded from the tables returns the list
\* that get_effective_permissions reads from the tables.
C36_PermissionQueriesAgree ==
    \A u \in StoredUserIds, o \in OrganizationIds :
        get_user_permissions(PoliciesOfTables, GroupingsOfTables, u, o)
            = get_effective_permissions(u, o)

\* C37: whenever the rate counter of a user exists it carries an expiry, or
\* the call that created it is at its expire command; this for every
\* interleaving of create_password_reset_token calls and also when a call
\* fails between its increment and its expire.
C37_RateKeyCarriesExpiry ==
    \A u \in ResetUsers :
        rateKey[u].n > 0
            => \/ rateKey[u].ttl
               \/ \E t \in Tasks : rpc[t] = "expire" /\ rloc[t].user = u

====
